---- MODULE Spec2Model ----
(***************************************************************************)
(* State-machine model of the M-Pesa client (package mpesa): the token     *)
(* cache and its mutex, GenerateAccessToken, makeHttpRequestWithToken and  *)
(* the operations built on it (STKPush, STKQuery, B2C, RegisterC2BURL,     *)
(* DynamicQR, GetTxnStatus).  Go strings that are errors are modelled as   *)
(* sequences of strings (format text followed by its arguments), nil as    *)
(* the empty sequence; pointers are sequences of length 0 (nil) or 1.      *)
(***************************************************************************)
EXTENDS Integers, Sequences, FiniteSets, TLC

(***************************************************************************)
(* Bounds of the model.                                                    *)
(***************************************************************************)
\* highest value of the wall clock, in minutes
MaxNow == 55
\* total number of calls the callers start
MaxCalls == 3
\* the number of calls made where progress is checked
MaxLiveCalls == 2

\* amounts by which the wall clock advances between two steps (minutes)
TickSteps == {54, 55}

(***************************************************************************)
(* Program constants.                                                      *)
(***************************************************************************)
\* var accessTokenTTL = 55 * time.Minute, in minutes
accessTokenTTL == 55

StatusOK == 200
StatusBadRequest == 400

Sandbox == "Sandbox"
Production == "Production"
sandboxBaseURL == "https://sandbox.safaricom.co.ke"
productionBaseURL == "https://api.safaricom.co.ke"

ResponseTypeComplete == "Completed"
ResponseTypeCanceled == "Canceled"
SuccessResultCode == "0"

Nil == << >>
ErrInvalidPasskey == <<"mpesa: passkey cannot be empty">>
ErrInvalidInitiatorPassword == <<"mpesa: initiator password cannot be empty">>

(***************************************************************************)
(* Client instances and callers.  Two instances are constructed with       *)
(* different consumer keys; callers 1 and 2 share instance "app1", caller  *)
(* 3 uses instance "app2".                                                 *)
(***************************************************************************)
Clients == {"app1", "app2"}
Procs == {1, 2, 3}
NoProc == 0

\* variant: the environment does not select the base address
NewApp_SandboxOnly(consumerKey, consumerSecret, env) ==
    LET baseUrl == sandboxBaseURL
    IN [ consumerKey    |-> consumerKey,
         consumerSecret |-> consumerSecret,
         environment    |-> env,
         authURL        |-> <<baseUrl, "/oauth/v1/generate?grant_type=client_credentials">>,
         b2cURL         |-> <<baseUrl, "/mpesa/b2c/v1/paymentrequest">>,
         c2bURL         |-> <<baseUrl, "/mpesa/c2b/v1/registerurl">>,
         dynamicQRURL   |-> <<baseUrl, "/mpesa/qrcode/v1/generate">>,
         stkPushQueryURL|-> <<baseUrl, "/mpesa/stkpushquery/v1/query">>,
         stkPushURL     |-> <<baseUrl, "/mpesa/stkpush/v1/processrequest">>,
         txnStatusURL   |-> <<baseUrl, "/mpesa/transactionstatus/v1/query">> ]

\* NewApp(c, consumerKey, consumerSecret, env): the fields of a new client
NewApp(consumerKey, consumerSecret, env) ==
    LET baseUrl == IF env = Production THEN productionBaseURL ELSE sandboxBaseURL
    IN [ consumerKey    |-> consumerKey,
         consumerSecret |-> consumerSecret,
         environment    |-> env,
         authURL        |-> <<baseUrl, "/oauth/v1/generate?grant_type=client_credentials">>,
         b2cURL         |-> <<baseUrl, "/mpesa/b2c/v1/paymentrequest">>,
         c2bURL         |-> <<baseUrl, "/mpesa/c2b/v1/registerurl">>,
         dynamicQRURL   |-> <<baseUrl, "/mpesa/qrcode/v1/generate">>,
         stkPushQueryURL|-> <<baseUrl, "/mpesa/stkpushquery/v1/query">>,
         stkPushURL     |-> <<baseUrl, "/mpesa/stkpush/v1/processrequest">>,
         txnStatusURL   |-> <<baseUrl, "/mpesa/transactionstatus/v1/query">> ]

(***************************************************************************)
(* Operations and their inputs.                                            *)
(***************************************************************************)
GAT == "GenerateAccessToken"
ChargeOps == {"STKPush", "STKQuery"}
PayoutOps == {"B2C", "GetTxnStatus"}
\* operations whose code is in the repository snapshot
CodeOps == ChargeOps \cup PayoutOps \cup {"RegisterC2BURL", "DynamicQR"}
\* operations known from their tests and request declarations only
LateOps == {"GetTransactionStatus", "GetAccountBalance", "BusinessPayBill"}
Ops == CodeOps \cup LateOps

\* the arguments of a call that the code inspects before any I/O: the passkey,
\* the initiator password, the schemes of the URLs of the payload (in field
\* order) and the ResponseType of a RegisterC2BURLRequest; for DynamicQR,
\* the decodeImage argument and the fields of the request that name the
\* image file; the context of the call is a context.Context unless said
\* otherwise.  A Go string that is taken apart is a sequence of its pieces.
Background == "context.Background"
NilContext == "nil"

Args(passkey, pwd, urls, rtype) ==
    [passkey |-> passkey, initiatorPwd |-> pwd, urls |-> urls, ResponseType |-> rtype,
     ctx |-> Background, decodeImage |-> FALSE, qr |-> << >>]

NoArgs == Args("", "", << >>, "")

\* DynamicQRRequest: the fields DynamicQR reads itself
DynamicQRRequest(merchantName, amount, cpi) ==
    [MerchantName |-> merchantName, Amount |-> amount, CreditPartyIdentifier |-> cpi]

QRArgs(req, decodeImage) == [NoArgs EXCEPT !.qr = req, !.decodeImage = decodeImage]

ArgsOf(op) ==
    CASE op = GAT -> {NoArgs}
      [] op = "STKPush" -> {Args(k, "", <<u>>, "") : k \in {"", "passkey"}, u \in {"https", "http"}}
      [] op = "STKQuery" -> {Args(k, "", << >>, "") : k \in {"", "passkey"}}
      [] op = "RegisterC2BURL" ->
            {Args("", "", u, t) : u \in {<<"https", "https">>, <<"http", "http">>},
                                  t \in {ResponseTypeComplete, ResponseTypeCanceled, "Foo"}}
      [] op = "DynamicQR" -> {QRArgs(DynamicQRRequest(<<"jwambugu">>, 10, <<"111222">>), d) : d \in BOOLEAN}
      [] OTHER -> {Args("", w, u, "") : w \in {"", "random-string"}, u \in {<<"https", "https">>, <<"http", "https">>, <<"https", "http">>}}

(***************************************************************************)
(* HTTP responses as the transport (HttpClient.Do) hands them back: Do     *)
(* failed (doErr, with the text err of its error), or a status and a body. *)
(* A body is a sequence: of length 0 when it is empty, of length 1,        *)
(* holding the decoded fields, when it is one JSON value for the target,   *)
(* and of length 2 when the read of the body ends inside a JSON value: the *)
(* text read so far and the error the reader returned.                     *)
(***************************************************************************)
\* ctx.Err() of a cancelled context
ContextCanceled == "context canceled"

\* the empty body
BadBody == << >>
\* a body that ends inside a JSON value: the reader returns io.EOF
CutBody == <<"{", "EOF">>
\* a body whose read the context of the request interrupts: the reader returns ctx.Err()
AbortedBody == <<"{", ContextCanceled>>
\* the body null: the decoder has the whole value before the reader returns io.EOF
NullBody == <<"null", "EOF">>

Response(doErr, status, body) ==
    [doErr |-> doErr, status |-> status, body |-> body,
     err |-> IF doErr THEN "transport error" ELSE ""]

\* client.Do returns the error of the context of the request
AbortedDo == [Response(TRUE, 0, BadBody) EXCEPT !.err = ContextCanceled]

\* http.StatusText
StatusText(status) == IF status = StatusOK THEN "OK" ELSE "Bad Request"

\* json.NewDecoder(res.Body).Decode(&v): the error of decoding, nil when the
\* body decodes.  On an empty body the decoder returns io.EOF; when the
\* reader returns io.EOF inside a value, io.ErrUnexpectedEOF; any other
\* error of the reader as it is.  The value null decodes without error
DecodeErr(body) ==
    IF Len(body) = 0 THEN <<"EOF">>
    ELSE IF Len(body) = 1 THEN Nil
    ELSE IF body = NullBody THEN Nil
    ELSE IF body[2] = "EOF" THEN <<"unexpected EOF">>
    ELSE <<body[2]>>

\* var v T; Decode(&v) of a body that decodes, T a struct type: the value
\* of the body, and for null the variable as it was declared
DecodedInto(zero, body) == IF body = NullBody THEN zero ELSE body[1]

\* the empty string, as a token
EmptyToken == << >>

\* AuthorizationResponse as decoded from the body of the token endpoint
AuthorizationResponse(token, expiresIn) ==
    [AccessToken |-> token, ExpiresIn |-> expiresIn]

\* the answers of the token endpoint to the n-th token request made with
\* the consumer key key: the provider issues a token of its own choice
\* (here one naming the key and the serial number of the request) or a
\* body without access_token
TokenResponses(key, n) ==
    {Response(TRUE, 0, BadBody)} \cup
    {Response(FALSE, s, b) :
        s \in {StatusOK, StatusBadRequest},
        b \in {BadBody,
               <<AuthorizationResponse(<<key, n>>, "3599")>>,
               <<AuthorizationResponse(EmptyToken, "3599")>>}} \cup
    {Response(FALSE, StatusOK, CutBody)}

\* the same, the 200 answer of a provider whose tokens live half an hour,
\* and the 200 answer with the body null
ProviderResponses(key, n) ==
    TokenResponses(key, n) \cup
    {Response(FALSE, StatusOK, <<AuthorizationResponse(<<key, n>>, "1800")>>),
     Response(FALSE, StatusOK, NullBody)}

\* GeneralRequestResponse / DynamicQRResponse: the fields the code reads
Envelope(errorCode, responseCode) ==
    [ RequestID           |-> IF errorCode = "" THEN "" ELSE "11728-2929992-1",
      ErrorCode           |-> errorCode,
      ErrorMessage        |-> IF errorCode = "" THEN "" ELSE "Invalid Access Token",
      ResponseCode        |-> responseCode,
      ResponseDescription |-> CASE responseCode = "" -> ""
                                [] responseCode = SuccessResultCode -> "success"
                                [] OTHER -> "rejected",
      QRCode              |-> "",
      ImagePath           |-> << >> ]

\* the answers of an operation endpoint: an envelope with an error code
\* comes with an error status, one without with status 200
OpResponses ==
    {Response(TRUE, 0, BadBody)} \cup
    {Response(FALSE, s, BadBody) : s \in {StatusOK, StatusBadRequest}} \cup
    {Response(FALSE, StatusOK, b) : b \in {CutBody, NullBody}} \cup
    {Response(FALSE, IF e = "" THEN StatusOK ELSE StatusBadRequest, <<Envelope(e, r)>>) :
        e \in {"", "401.002.01"}, r \in {"", "0", "1"}}

\* a QRCode that is the base64 text of a PNG image
PngImage == "iVBORw0KGgoAAAANSUhEUgAAASwAAAEsCAYAAAB5fY51"

\* the answer of the QR endpoint to a well-formed request
QRResponse ==
    Response(FALSE, StatusOK,
             <<[Envelope("", "00") EXCEPT
                    !.ResponseDescription = "The service request is processed successfully.",
                    !.QRCode = PngImage]>>)

\* the answers of the endpoint of operation op
EndpointResponses(op) ==
    IF op = "DynamicQR" THEN OpResponses \cup {QRResponse} ELSE OpResponses

(***************************************************************************)
(* The local part of each operation: what it checks before it calls        *)
(* makeHttpRequestWithToken, and how it decodes and classifies the         *)
(* response.  A result is the pair (value, error) a Go function returns.   *)
(***************************************************************************)
Result(res, err) == [res |-> res, err |-> err]

\* errors.Join(a, b) of two non-nil errors: the messages joined by a newline
Join(a, b) == a \o <<"\n">> \o b

\* variant: the passkey is not looked at
PasskeyCheck_Skipped(args) == Nil

\* STKPush, STKQuery: if passkey == "" { return nil, ErrInvalidPasskey }
PasskeyCheck(args) == IF args.passkey = "" THEN ErrInvalidPasskey ELSE Nil

\* B2C, GetTxnStatus: if initiatorPwd == "" { return nil, ErrInvalidInitiatorPassword }
InitiatorPwdCheck(args) ==
    IF args.initiatorPwd = "" THEN ErrInvalidInitiatorPassword ELSE Nil

\* RegisterC2BURL: switch req.ResponseType
ResponseTypeCheck_AnyValue(args) == Nil

ResponseTypeCheck(args) ==
    IF args.ResponseType \in {ResponseTypeComplete, ResponseTypeCanceled}
    THEN Nil
    ELSE <<"mpesa: the provided ResponseType [%s] is not valid", args.ResponseType>>

\* variant: any scheme is accepted
validateURL_AnyScheme(scheme) == Nil

\* validateURL of the later operations: a URL whose scheme is not https is rejected
validateURL(scheme) ==
    IF scheme = "https" THEN Nil ELSE <<"mpesa: %q must use \"https\"", scheme>>

RECURSIVE validateURLs(_)
validateURLs(urls) ==
    IF urls = << >> THEN Nil
    ELSE IF validateURL(Head(urls)) # Nil THEN validateURL(Head(urls))
    ELSE validateURLs(Tail(urls))

\* GetTransactionStatus, GetAccountBalance, BusinessPayBill: the password
\* check comes first, then the URLs of the payload
LateOpCheck(args) ==
    IF InitiatorPwdCheck(args) # Nil THEN InitiatorPwdCheck(args)
    ELSE validateURLs(args.urls)

\* the error, if any, with which operation op returns before any I/O
Precheck(op, args) ==
    CASE op \in ChargeOps -> PasskeyCheck(args)
      [] op \in PayoutOps -> InitiatorPwdCheck(args)
      [] op = "RegisterC2BURL" -> ResponseTypeCheck(args)
      [] op \in LateOps -> LateOpCheck(args)
      [] OTHER -> Nil

\* the format of the error an operation returns for a non-empty errorCode
ErrorCodeFormat(op) ==
    CASE op = "STKPush" -> "mpesa: stk push request ID %v failed with error code %v:%v"
      [] op = "STKQuery" -> "mpesa: stk push query request ID %v failed with error code %v:%v"
      [] op = "B2C" -> "mpesa: b2c request ID %v failed with error code %v:%v"
      [] op = "DynamicQR" -> "mpesa: dynamic QR request ID %v failed with error code %v:%v"
      [] op = "GetTxnStatus" -> "mpesa: txn status request ID %v failed with error code %v - %v"
      [] OTHER -> "mpesa: request ID %v failed with error code %v:%v"

\* the format of the error an operation returns for a body it cannot decode
DecodeErrorFormat(op) ==
    CASE op = "STKPush" -> "mpesa: error decoding stk push request response - %v"
      [] op = "STKQuery" -> "mpesa: error decoding stk push query request response - %v"
      [] op = "B2C" -> "mpesa: error decoding b2c request response - %v"
      [] op = "DynamicQR" -> "mpesa: error decoding dynamic QR response - %v"
      [] op = "GetTxnStatus" -> "mpesa: error decoding txn status request response - %v"
      [] OTHER -> "mpesa: error decoding response - %v"

\* if resp.ErrorCode != "" { return nil, fmt.Errorf("... request ID %v failed with error code %v:%v", ...) }
ErrorCodeCheck(op, resp) ==
    IF resp.ErrorCode # ""
    THEN <<ErrorCodeFormat(op), resp.RequestID, resp.ErrorCode, resp.ErrorMessage>>
    ELSE Nil

\* variant: the response code is not looked at
ResponseCodeCheck_Skipped(resp) == Nil

\* GetTxnStatus: if resp.ResponseCode != SuccessResultCode { return nil, fmt.Errorf(...) }
ResponseCodeCheck(resp) ==
    IF resp.ResponseCode # SuccessResultCode
    THEN <<"mpesa: txn status failed with response code %v - %v",
           resp.ResponseCode, resp.ResponseDescription>>
    ELSE Nil

\* variant: the decoded response is returned together with the error
ClassifyByErrorCode_Partial(op, resp) ==
    IF ErrorCodeCheck(op, resp) # Nil
    THEN Result(<<resp>>, ErrorCodeCheck(op, resp))
    ELSE Result(<<resp>>, Nil)

\* STKPush, STKQuery, B2C, DynamicQR after a decoded response: only errorCode is looked at
ClassifyByErrorCode(op, resp) ==
    IF ErrorCodeCheck(op, resp) # Nil
    THEN Result(Nil, ErrorCodeCheck(op, resp))
    ELSE Result(<<resp>>, Nil)

\* GetTxnStatus after a decoded response: ResponseCode first, then errorCode
ClassifyTxnStatus(op, resp) ==
    IF ResponseCodeCheck(resp) # Nil
    THEN Result(Nil, ResponseCodeCheck(resp))
    ELSE ClassifyByErrorCode(op, resp)

\* RegisterC2BURL after a decoded response: return &result, nil
ClassifyC2B(resp) == Result(<<resp>>, Nil)

\* the later operations, as the specification describes the classification:
\* a non-empty error code, or a status code that is present and not "0"
ClassifyLate(op, resp) ==
    IF resp.ErrorCode # ""
    THEN Result(Nil, ErrorCodeCheck(op, resp))
    ELSE IF resp.ResponseCode \notin {"", SuccessResultCode}
    THEN Result(Nil, <<ErrorCodeFormat(op), resp.RequestID, resp.ResponseCode, resp.ResponseDescription>>)
    ELSE Result(<<resp>>, Nil)

Classify(op, resp) ==
    CASE op = "GetTxnStatus" -> ClassifyTxnStatus(op, resp)
      [] op = "RegisterC2BURL" -> ClassifyC2B(resp)
      [] op \in LateOps -> ClassifyLate(op, resp)
      [] OTHER -> ClassifyByErrorCode(op, resp)

\* what an operation does with an error of makeHttpRequestWithToken:
\* RegisterC2BURL joins it to an error of its own, the others return it as it is
OnRequestError(op, err) ==
    IF op = "RegisterC2BURL"
    THEN Join(<<"mpesa: c2b url validation failed">>, err)
    ELSE err

\* what an operation does with an error of decoding the response body
OnDecodeError(op, err) ==
    IF op = "RegisterC2BURL"
    THEN Join(<<"mpesa: could not unmarshall c2b response body">>, err)
    ELSE <<DecodeErrorFormat(op)>> \o err

\* makeHttpRequestWithToken: the error for an error err of client.Do; the
\* version of the function that GetTxnStatus calls names the operation
RequestError(op, err) ==
    IF op = "GetTxnStatus"
    THEN <<"mpesa: error making %v request - %v", "txn status", err>>
    ELSE <<"mpesa: error making request - %v", err>>

\* the result of operation op once client.Do has returned r for its request
OpResult(op, r) ==
    IF r.doErr
    THEN Result(Nil, OnRequestError(op, RequestError(op, r.err)))
    ELSE IF DecodeErr(r.body) # Nil
    THEN Result(Nil, OnDecodeError(op, DecodeErr(r.body)))
    ELSE Classify(op, DecodedInto(Envelope("", ""), r.body))

\* DynamicQR decodes into var resp *DynamicQRResponse: the body null leaves
\* the pointer nil, and resp.ErrorCode panics with a nil pointer dereference
NilDereference(op, r) == op = "DynamicQR" /\ ~r.doErr /\ r.body = NullBody

(***************************************************************************)
(* DynamicQR with decodeImage: the QR code of the response is decoded and  *)
(* written as a PNG file under storage/images of the working directory.    *)
(* The file system is the record of whether that directory exists and of   *)
(* the files in it.                                                        *)
(***************************************************************************)
NoFiles == [imagesDir |-> FALSE, files |-> {}]

\* the error of a call of package os that fails
FileError == "permission denied"

\* png.Decode(base64.NewDecoder(base64.StdEncoding, strings.NewReader(qrCode))): the error, nil if none
PngDecodeErr(qrCode) ==
    IF qrCode = PngImage THEN Nil
    ELSE IF qrCode = "" THEN <<"unexpected EOF">>
    ELSE <<"png: invalid format: not a PNG file">>

\* strings.ReplaceAll(text, old, new), old being one piece of the text
ReplaceAll(text, old, new) ==
    [i \in DOMAIN text |-> IF text[i] = old THEN new ELSE text[i]]

\* filepath.Join(wd, "storage", "images")
ImagesDir(wd) == <<wd, "/", "storage", "/", "images">>

\* imagesDir + "/" + strings.ReplaceAll(MerchantName + "_" + amountStr + "_" + CPI + ".png", " ", "_")
Filename(imagesDir, req) ==
    imagesDir \o <<"/">> \o
    ReplaceAll(req.MerchantName \o <<"_", ToString(req.Amount), "_">>
                    \o req.CreditPartyIdentifier \o <<".png">>, " ", "_")

\* DynamicQR after the error-code check when decodeImage is set: the result
\* and the file system it leaves, when the call io of package os fails
DecodeImage(resp, req, files, io) ==
    LET \* wd, err := os.Getwd(), here "/go/src/mpesa"
        filename == Filename(ImagesDir("/go/src/mpesa"), req)
        made     == [files EXCEPT !.imagesDir = TRUE]
        written  == [made EXCEPT !.files = @ \cup {filename}]
    IN
    IF PngDecodeErr(resp.QRCode) # Nil
    THEN [out |-> Result(Nil, <<"mpesa: failed to decode png: %v">> \o PngDecodeErr(resp.QRCode)),
          fs |-> files]
    ELSE IF io = "getwd"
    THEN [out |-> Result(Nil, <<"mpesa: failed to get working dir: %v", FileError>>), fs |-> files]
    ELSE IF ~files.imagesDir /\ io = "mkdir"
    THEN [out |-> Result(Nil, <<"mpesa: failed to create images dir: %v", FileError>>), fs |-> files]
    ELSE IF io = "open"
    THEN [out |-> Result(Nil, <<"mpesa: failed to open png file: %v", FileError>>), fs |-> made]
    ELSE IF io = "encode"
    THEN [out |-> Result(Nil, <<"mpesa: failed to encode png: %v", FileError>>), fs |-> written]
    ELSE [out |-> Result(<<[resp EXCEPT !.ImagePath = filename]>>, Nil), fs |-> written]

\* the operation goes on to the image after a successful classification
WritesImage(op, args, r) ==
    op = "DynamicQR" /\ args.decodeImage /\ OpResult(op, r).err = Nil

\* the calls of package os whose failure the operation can meet while the
\* image is written, "" for none; Mkdir is only called when the directory
\* is not there
FileOutcomes(op, args, r, files) ==
    IF WritesImage(op, args, r) /\ PngDecodeErr(OpResult(op, r).res[1].QRCode) = Nil
    THEN {"", "getwd", "open", "encode"} \cup (IF files.imagesDir THEN {} ELSE {"mkdir"})
    ELSE {""}

\* the result of operation op called with args once client.Do has returned
\* r, and the file system it leaves
OpOutcome(op, args, r, files, io) ==
    IF WritesImage(op, args, r)
    THEN DecodeImage(OpResult(op, r).res[1], args.qr, files, io)
    ELSE [out |-> OpResult(op, r), fs |-> files]

(***************************************************************************)
(* Callback decoding: toBytes, json.Marshal and json.Unmarshal on the      *)
(* fields of STKPushCallback and B2CCallback.  A JSON text is a sequence   *)
(* of tokens <<key, kind, value>>: the braces of an object, and between    *)
(* them its members, each with the kind of its value ("string" or          *)
(* "number"); a text of one token with an empty key is a JSON scalar.      *)
(***************************************************************************)
OpenBrace == <<"{", "", "">>
CloseBrace == <<"}", "", "">>
Member(key, kind, value) == <<key, kind, value>>
Scalar(kind, value) == <<"", kind, value>>
IsBrace(tok) == tok \in {OpenBrace, CloseBrace}

\* the target types and, for each, the fields the model keeps, in the
\* order of the struct, with the JSON kind of each Go type
CallbackTypes == {"STKPushCallback", "B2CCallback"}
CallbackFields(type) ==
    IF type = "STKPushCallback"
    THEN <<[name |-> "CheckoutRequestID", kind |-> "string"],
           [name |-> "ResultCode", kind |-> "number"]>>
    ELSE <<[name |-> "ConversationID", kind |-> "string"],
           [name |-> "ResultCode", kind |-> "number"]>>

\* var callback STKPushCallback: the zero value
ZeroCallback(type) ==
    [i \in DOMAIN CallbackFields(type) |->
        IF CallbackFields(type)[i].kind = "number" THEN "0" ELSE ""]

\* json.Marshal of a callback struct: every field, in the order of the struct
RECURSIVE MarshalFields(_, _, _)
MarshalFields(type, cb, i) ==
    IF i > Len(cb) THEN << >>
    ELSE <<Member(CallbackFields(type)[i].name, CallbackFields(type)[i].kind, cb[i])>>
            \o MarshalFields(type, cb, i + 1)
MarshalCallback(type, cb) == <<OpenBrace>> \o MarshalFields(type, cb, 1) \o <<CloseBrace>>

\* base64.StdEncoding of a text, as a string
Base64(text) == "base64:" \o ToString(text)

\* json.Marshal(v) for the dynamic type of v: a []byte becomes a base64
\* JSON string, a struct without exported fields (strings.Reader,
\* bytes.Buffer) becomes {}, a callback struct becomes its object, and a
\* type json does not support is an error
Marshal(in) ==
    CASE in.shape = "bytes" -> Result(<<Scalar("string", Base64(in.text))>>, Nil)
      [] in.shape = "reader" -> Result(<<OpenBrace, CloseBrace>>, Nil)
      [] in.shape = "typed" -> Result(MarshalCallback(in.type, in.value), Nil)
      [] OTHER -> Result(<< >>, <<"json: unsupported type: chan int">>)

\* toBytes(in): switch v := in.(type)
toBytes(in) ==
    CASE in.shape = "string" -> Result(in.text, Nil)
      [] in.shape = "request" ->
            IF in.readErr THEN Result(<< >>, <<"unexpected EOF">>) ELSE Result(in.text, Nil)
      [] OTHER -> Marshal(in)

\* json.Valid: a scalar, or an object with its braces and members between them
ValidJSON(text) ==
    \/ Len(text) = 1 /\ ~IsBrace(text[1]) /\ text[1][1] = ""
    \/ /\ Len(text) >= 2
       /\ text[1] = OpenBrace /\ text[Len(text)] = CloseBrace
       /\ \A i \in 2..(Len(text) - 1) : ~IsBrace(text[i]) /\ text[i][1] # ""

\* the index of the field of the target that the key names, 0 if none
FieldIndex(type, key) ==
    IF \E i \in DOMAIN CallbackFields(type) : CallbackFields(type)[i].name = key
    THEN CHOOSE i \in DOMAIN CallbackFields(type) : CallbackFields(type)[i].name = key
    ELSE 0

\* decoding the members of an object into the struct: a member of an
\* unknown key is skipped, one of the wrong kind leaves its field and is
\* remembered as the error if it is the first, the others set their field
RECURSIVE DecodeMembers(_, _, _, _)
DecodeMembers(type, members, cb, err) ==
    IF members = << >> THEN Result(cb, err)
    ELSE LET tok == Head(members)
             i   == FieldIndex(type, tok[1])
         IN IF i = 0 THEN DecodeMembers(type, Tail(members), cb, err)
            ELSE IF CallbackFields(type)[i].kind # tok[2]
            THEN DecodeMembers(type, Tail(members), cb,
                    IF err # Nil THEN err
                    ELSE <<"json: cannot unmarshal %v into Go struct field %v", tok[2], tok[1]>>)
            ELSE DecodeMembers(type, Tail(members), [cb EXCEPT ![i] = tok[3]], err)

\* variant: decoding stops without error at the first member of the wrong kind
Unmarshal_Lenient(type, text) ==
    IF ~ValidJSON(text)
    THEN Result(ZeroCallback(type), <<"unexpected end of JSON input">>)
    ELSE IF Len(text) = 1
    THEN Result(ZeroCallback(type),
                <<"json: cannot unmarshal %v into Go value of type %v", text[1][2], type>>)
    ELSE Result(DecodeMembers(type, SubSeq(text, 2, Len(text) - 1), ZeroCallback(type), Nil).res, Nil)

\* json.Unmarshal(b, &callback): the struct as decoding leaves it, and the error
Unmarshal(type, text) ==
    IF ~ValidJSON(text)
    THEN Result(ZeroCallback(type), <<"unexpected end of JSON input">>)
    ELSE IF Len(text) = 1
    THEN Result(ZeroCallback(type),
                <<"json: cannot unmarshal %v into Go value of type %v", text[1][2], type>>)
    ELSE DecodeMembers(type, SubSeq(text, 2, Len(text) - 1), ZeroCallback(type), Nil)

\* UnmarshalSTKPushCallback(in), UnmarshalB2CCallback(in)
UnmarshalCallback(type, in) ==
    LET b == toBytes(in)
        d == Unmarshal(type, b.res)
    IN IF b.err # Nil
       THEN Result(Nil, <<"mpesa: error unmarshing input - %v">> \o b.err)
       ELSE IF d.err # Nil
       THEN Result(Nil, <<"mpesa: error unmarshling stk push callback - %v">> \o d.err)
       ELSE Result(<<d.res>>, Nil)

(***************************************************************************)
(* Credential encryption: the initiator password is encrypted with the     *)
(* RSA public key of the certificate of the environment, PKCS #1 v1.5      *)
(* padding, and base64-encoded.  A ciphertext is the certificate, the      *)
(* padding drawn and the message; the n-th draw from rand.Reader is a      *)
(* value no other draw yields.                                             *)
(***************************************************************************)
\* the size in bytes of the modulus of the keys in the embedded certificates (RSA 2048)
KeyBytes == 256
\* the bytes PKCS #1 v1.5 encryption padding takes: len(msg) > k-11 is ErrMessageTooLong
PKCS1v15Overhead == 11

\* certPath := "certs/sandbox.cer"; if m.Environment().IsProduction() { certPath = "certs/production.cer" }
CertPath(env) == IF env = Production THEN "certs/production.cer" ELSE "certs/sandbox.cer"

\* the n-th draw from rand.Reader
Draw(n) == ToString(n)

\* variant: textbook RSA, no random padding
EncryptPKCS1v15_NoPadding(pad, cert, msg) ==
    IF Len(msg) > KeyBytes - PKCS1v15Overhead
    THEN Result(<< >>, <<"crypto/rsa: message too long for RSA key size">>)
    ELSE Result(<<cert, "", msg>>, Nil)

\* rsa.EncryptPKCS1v15(reader, rsaPublicKey, []byte(password))
EncryptPKCS1v15(pad, cert, msg) ==
    IF Len(msg) > KeyBytes - PKCS1v15Overhead
    THEN Result(<< >>, <<"crypto/rsa: message too long for RSA key size">>)
    ELSE Result(<<cert, pad, msg>>, Nil)

\* base64.StdEncoding.EncodeToString, and what decodes as base64
EncodeToString(bytes) == <<"base64">> \o bytes
ValidBase64(str) == str = << >> \/ str[1] = "base64"
DecodeString(str) == IF str = << >> THEN << >> ELSE Tail(str)

(***************************************************************************)
(* Timestamp and password of the charge operations.                        *)
(***************************************************************************)
\* BusinessShortCode of the requests of the tests
BusinessShortCode == 174379

TwoDigits(n) == IF n < 10 THEN "0" \o ToString(n) ELSE ToString(n)

\* time.Time.Format("20060102150405") of the instant t minutes after the start
Format(t) == "20230101" \o TwoDigits((t \div 60) % 24) \o TwoDigits(t % 60) \o "00"

\* the timestamp and the password of a charge request built at time t
generateTimestampAndPassword(shortcode, passkey, t) ==
    LET timestamp == Format(t)
        password  == <<ToString(shortcode), passkey, timestamp>>
    IN  <<timestamp, EncodeToString(password)>>

\* the payload of the operation as the wrapper hands it to makeHttpRequestWithToken
Payload(op, args, t) ==
    IF op \in ChargeOps
    THEN LET tp == generateTimestampAndPassword(BusinessShortCode, args.passkey, t)
         IN  <<[Timestamp |-> tp[1], Password |-> tp[2]]>>
    ELSE << >>

\* getSecurityCredentials(password) on a client of environment env, with
\* the padding pad drawn from rand.Reader
getSecurityCredentials(env, password, pad) ==
    LET signature == EncryptPKCS1v15(pad, CertPath(env), password)
    IN IF password = "" THEN Result(<< >>, ErrInvalidInitiatorPassword)
       ELSE IF signature.err # Nil
       THEN Result(<< >>, <<"mpesa: error encrypting password: %v">> \o signature.err)
       ELSE Result(EncodeToString(signature.res), Nil)

\* the operations that send a security credential
CredentialOps == PayoutOps \cup LateOps

\* the URL an operation posts to
Endpoint(a, op) ==
    CASE op = "STKPush" -> a.stkPushURL
      [] op = "STKQuery" -> a.stkPushQueryURL
      [] op = "B2C" -> a.b2cURL
      [] op = "RegisterC2BURL" -> a.c2bURL
      [] op = "DynamicQR" -> a.dynamicQRURL
      [] op \in {"GetTxnStatus", "GetTransactionStatus"} -> a.txnStatusURL
      [] op = "GetAccountBalance" -> <<a.txnStatusURL[1], "/mpesa/accountbalance/v1/query">>
      [] OTHER -> <<a.txnStatusURL[1], "/mpesa/b2b/v1/paymentrequest">>

(***************************************************************************)
(* State.                                                                  *)
(***************************************************************************)
VARIABLES
    app,        \* per client instance: the fields NewApp sets (Mpesa struct)
    cache,      \* per client instance: m.cache, a map from consumer key to AuthorizationResponse with setAt
    mu,         \* per client instance: m.mu, the caller holding it or NoProc
    now,        \* the wall clock (time.Now()), in minutes
    pc,         \* per caller: where it is in its call
    call,       \* per caller: the call it is in and what it has got so far
    tokenReqs,  \* per client instance: requests its transport got for the token endpoint
    opReqs,     \* per client instance: requests its transport got for operation endpoints
    calls,      \* number of calls started
    workload,   \* per caller: the calls it may make
    notification, \* the callback notification handed to the decoders
    decoded,    \* per shape of input tried so far: what the decoder returned for the notification
    creds,      \* the security credentials generated so far, oldest first
    fs          \* the file system under the working directory: the images directory and its files

vars == <<app, cache, mu, now, pc, call, tokenReqs, opReqs, calls, workload, notification, decoded, creds, fs>>

TokenCall == [op |-> GAT, args |-> NoArgs]
PushCall == [op |-> "STKPush", args |-> Args("passkey", "", <<"https">>, "")]

\* a burst of three callers on one instance: callers 1 and 2 ask for the
\* token themselves, caller 3 makes a charge
BurstWorkload ==
    [p \in Procs |-> IF p = 3 THEN {PushCall} ELSE {TokenCall}]

\* the instance each caller uses: callers 1 and 2 share "app1" and caller 3
\* has "app2", except in a burst, where the three of them share "app1"
ClientOf(p) == IF p = 3 /\ workload # BurstWorkload THEN "app2" ELSE "app1"

\* every call an operation admits
AllCalls == UNION {{[op |-> o, args |-> a] : a \in ArgsOf(o)} : o \in Ops \cup {GAT}}

\* one caller alone, making any call
SoloWorkload == [p \in Procs |-> IF p = 1 THEN AllCalls ELSE {}]

\* GenerateAccessToken(nil)
NilContextCall == [op |-> GAT, args |-> [NoArgs EXCEPT !.ctx = NilContext]]
PayoutCall == [op |-> "B2C", args |-> Args("", "random-string", <<"https", "https">>, "")]

\* two callers sharing the instance "app1": caller 1 asks for the token,
\* caller 2 asks for the token or makes a charge
PairWorkload ==
    [p \in Procs |->
        CASE p = 1 -> {TokenCall}
          [] p = 2 -> {TokenCall, PushCall}
          [] OTHER -> {}]

\* two callers on different instances: caller 1 on "app1", caller 3 on "app2"
CrossWorkload ==
    [p \in Procs |->
        CASE p = 1 -> {TokenCall, PushCall}
          [] p = 3 -> {TokenCall}
          [] OTHER -> {}]

\* the caller of the production instance "app2" alone, asking for the
\* token or making a payout
ProductionWorkload ==
    [p \in Procs |-> IF p = 3 THEN {TokenCall, PayoutCall} ELSE {}]

Workloads == {SoloWorkload, PairWorkload, CrossWorkload, ProductionWorkload}

NoCall ==
    [ op      |-> "",
      args    |-> NoArgs,
      id      |-> 0,        \* the number of the call, in the order in which calls start
      enteredAt |-> 0,      \* the time at which the call entered GenerateAccessToken
      coldStart |-> FALSE,  \* whether the cache had no fresh entry at that time
      with    |-> {},       \* the calls on the same instance inside GenerateAccessToken at that time
      lookup  |-> "",       \* what the cache lookup found: "cold", "stale" or "fresh"
      gat     |-> << >>,    \* the result of GenerateAccessToken once it has returned
      sentTok |-> 0,        \* token requests this call has sent
      sentOp  |-> 0,        \* operation requests this call has sent
      cancelAt|-> "",       \* where the call was when its context was cancelled, "" if it was not
      cred    |-> << >>,    \* SecurityCredential of the payload, if the operation has one
      body    |-> << >>,    \* Timestamp and Password of the payload, if the operation has them
      tokURL  |-> << >>,    \* the URL of the token request
      opURL   |-> << >>,    \* the URL of the operation request
      tokGot  |-> << >>,    \* the response client.Do returned for the token request
      bearer  |-> << >>,    \* the Authorization header of the operation request
      contentType |-> "",   \* the Content-Type header of the operation request
      got     |-> << >>,    \* the response client.Do returned for the operation request
      ioErr   |-> "",       \* the call of package os that failed while the image was written
      out     |-> << >> ]   \* the result of the call once it has returned

EmptyCache_Preloaded ==
    "default" :> [AccessToken |-> EmptyToken, ExpiresIn |-> "0", setAt |-> 0]

EmptyCache == [k \in {} |-> 0]

\* no notification is being decoded
NoNotification == [type |-> "", text |-> << >>, value |-> << >>]
NoneDecoded == [k \in {} |-> 0]

Init ==
    /\ app = [c \in Clients |->
                IF c = "app1" THEN NewApp("key1", "secret1", Sandbox)
                              ELSE NewApp("key2", "secret2", Production)]
    /\ cache = [c \in Clients |-> EmptyCache]
    /\ mu = [c \in Clients |-> NoProc]
    /\ now = 0
    /\ pc = [p \in Procs |-> "idle"]
    /\ call = [p \in Procs |-> NoCall]
    /\ tokenReqs = [c \in Clients |-> 0]
    /\ opReqs = [c \in Clients |-> 0]
    /\ calls = 0
    /\ workload \in Workloads
    /\ notification = NoNotification
    /\ decoded = NoneDecoded
    /\ creds = << >>
    /\ fs = NoFiles

(***************************************************************************)
(* GenerateAccessToken.                                                    *)
(***************************************************************************)
\* variant: !Before instead of After, a token is still served at exactly setAt + accessTokenTTL
Fresh_Inclusive(cachedData, t) == cachedData.setAt + accessTokenTTL >= t

\* cachedData.setAt.Add(accessTokenTTL).After(time.Now())
Fresh(cachedData, t) == cachedData.setAt + accessTokenTTL > t

\* variant: the cache is never consulted
CacheHit_Never(cch, key, t) == FALSE

\* if cachedData, ok := m.cache[m.consumerKey]; ok { if fresh { return cachedData.AccessToken, nil } }
CacheHit(cch, key, t) == key \in DOMAIN cch /\ Fresh(cch[key], t)

\* what the lookup found, for the record of the call
LookupKind(cch, key, t) ==
    IF key \notin DOMAIN cch THEN "cold"
    ELSE IF Fresh(cch[key], t) THEN "fresh" ELSE "stale"

\* variant: the status of the response is not looked at
TokenError_AnyStatus(r) ==
    IF r.doErr
    THEN <<"mpesa: error making authorization http request - %v", r.err>>
    ELSE IF DecodeErr(r.body) # Nil
    THEN <<"mpesa: error decoding authorization response - %v">> \o DecodeErr(r.body)
    ELSE Nil

\* the error of GenerateAccessToken for the response r of the token endpoint, nil if none
TokenError(r) ==
    IF r.doErr
    THEN <<"mpesa: error making authorization http request - %v", r.err>>
    ELSE IF r.status # StatusOK
    THEN <<"mpesa: authorization request failed with status - %v", StatusText(r.status)>>
    ELSE IF DecodeErr(r.body) # Nil
    THEN <<"mpesa: error decoding authorization response - %v">> \o DecodeErr(r.body)
    ELSE Nil

\* variant: an entry that is there keeps its setAt
CacheStore_KeepIssuedAt(cch, key, response, t) ==
    (key :> [AccessToken |-> response.AccessToken,
             ExpiresIn   |-> response.ExpiresIn,
             setAt       |-> IF key \in DOMAIN cch THEN cch[key].setAt ELSE t]) @@ cch

\* response.setAt = time.Now(); m.cache[m.consumerKey] = response
CacheStore(cch, key, response, t) ==
    (key :> [AccessToken |-> response.AccessToken,
             ExpiresIn   |-> response.ExpiresIn,
             setAt       |-> t]) @@ cch

\* the caller of GenerateAccessToken goes on: a direct call has returned,
\* an operation is back in makeHttpRequestWithToken
AfterGAT(p, res) ==
    IF call[p].op = GAT THEN <<"done", <<res>>>> ELSE <<"gat_ret", << >>>>

\* the positions of a caller inside GenerateAccessToken: waiting for the
\* mutex, holding it before the lookup, holding it with the token request in flight
InGAT == {"gat_lock", "gat_lookup", "gat_inflight"}

\* the context of the call of caller p is done
CtxDone(p) == call[p].cancelAt # ""

\* variant: the token request is built with context.Background()
TokenCtxDone_Background(p) == FALSE

\* http.NewRequestWithContext(ctx, http.MethodGet, m.authURL, nil): the
\* context of the token request is done
TokenCtxDone(p) == CtxDone(p)

\* http.NewRequestWithContext(ctx, method, url, ...): the context of the
\* operation request is done
OpCtxDone(p) == CtxDone(p)

\* what client.Do, and the read of the body it returned, may give for a
\* request whose endpoint answers with one of rs.  The code hands the
\* context to the request and does not look at it again: a transport that
\* watches the context (net/http) returns its error from Do, or from the
\* read of the body when the context is done after Do has returned; one
\* that does not (mockHttpClient) answers as for any other request
Answers(done, rs) ==
    IF done THEN rs \cup {AbortedDo, Response(FALSE, StatusOK, AbortedBody)} ELSE rs

\* http.NewRequestWithContext refuses a nil context; the method and the URL
\* of the token request are fixed and well formed
NewRequestError(ctx) ==
    IF ctx = NilContext
    THEN <<"mpesa: error creating authorization http request - %v", "net/http: nil Context">>
    ELSE Nil

\* variant: the mutex is not released when GenerateAccessToken returns
Unlocked_Never(m, c) == m

\* defer m.mu.Unlock(): the mutex of client c once GenerateAccessToken has returned
Unlocked(m, c) == [m EXCEPT ![c] = NoProc]

\* variant: no mutual exclusion, the caller goes on whoever holds the mutex
Lock_NoWait(p) ==
    LET c == ClientOf(p) IN
    /\ pc[p] = "gat_lock"
    /\ mu' = [mu EXCEPT ![c] = p]
    /\ pc' = [pc EXCEPT ![p] = "gat_lookup"]
    /\ UNCHANGED <<app, cache, now, call, tokenReqs, opReqs, calls, workload, notification, decoded, creds, fs>>

\* m.mu.Lock(): blocks until the mutex is free
Lock(p) ==
    LET c == ClientOf(p) IN
    /\ pc[p] = "gat_lock"
    /\ mu[c] = NoProc
    /\ mu' = [mu EXCEPT ![c] = p]
    /\ pc' = [pc EXCEPT ![p] = "gat_lookup"]
    /\ UNCHANGED <<app, cache, now, call, tokenReqs, opReqs, calls, workload, notification, decoded, creds, fs>>

\* variant: Unlock is not deferred, the return of a cache hit leaves the mutex locked
Lookup_KeepLock(p) ==
    LET c   == ClientOf(p)
        key == app[c].consumerKey
        res == Result(cache[c][key].AccessToken, Nil)
        bad == Result(EmptyToken, NewRequestError(call[p].args.ctx))
    IN
    /\ pc[p] = "gat_lookup"
    /\ IF CacheHit(cache[c], key, now)
       THEN /\ pc' = [pc EXCEPT ![p] = AfterGAT(p, res)[1]]
            /\ call' = [call EXCEPT ![p].lookup = "fresh",
                                    ![p].gat = <<res>>, ![p].out = AfterGAT(p, res)[2]]
            /\ UNCHANGED tokenReqs
       ELSE IF NewRequestError(call[p].args.ctx) # Nil
       THEN /\ pc' = [pc EXCEPT ![p] = AfterGAT(p, bad)[1]]
            /\ call' = [call EXCEPT ![p].lookup = LookupKind(cache[c], key, now),
                                    ![p].gat = <<bad>>, ![p].out = AfterGAT(p, bad)[2]]
            /\ UNCHANGED tokenReqs
       ELSE /\ tokenReqs' = [tokenReqs EXCEPT ![c] = @ + 1]
            /\ pc' = [pc EXCEPT ![p] = "gat_inflight"]
            /\ call' = [call EXCEPT ![p].lookup = LookupKind(cache[c], key, now),
                                    ![p].tokURL = app[c].authURL,
                                    ![p].sentTok = @ + 1]
    /\ UNCHANGED <<app, cache, mu, now, opReqs, calls, workload, notification, decoded, creds, fs>>

\* the cache lookup; on a hit the token is returned and the deferred Unlock
\* runs, otherwise the token request is built and handed to client.Do
Lookup(p) ==
    LET c   == ClientOf(p)
        key == app[c].consumerKey
        res == Result(cache[c][key].AccessToken, Nil)
        bad == Result(EmptyToken, NewRequestError(call[p].args.ctx))
    IN
    /\ pc[p] = "gat_lookup"
    /\ IF CacheHit(cache[c], key, now)
       THEN /\ mu' = Unlocked(mu, c)
            /\ pc' = [pc EXCEPT ![p] = AfterGAT(p, res)[1]]
            /\ call' = [call EXCEPT ![p].lookup = "fresh",
                                    ![p].gat = <<res>>, ![p].out = AfterGAT(p, res)[2]]
            /\ UNCHANGED tokenReqs
       ELSE IF NewRequestError(call[p].args.ctx) # Nil
       THEN /\ mu' = Unlocked(mu, c)
            /\ pc' = [pc EXCEPT ![p] = AfterGAT(p, bad)[1]]
            /\ call' = [call EXCEPT ![p].lookup = LookupKind(cache[c], key, now),
                                    ![p].gat = <<bad>>, ![p].out = AfterGAT(p, bad)[2]]
            /\ UNCHANGED tokenReqs
       ELSE /\ tokenReqs' = [tokenReqs EXCEPT ![c] = @ + 1]
            /\ pc' = [pc EXCEPT ![p] = "gat_inflight"]
            /\ call' = [call EXCEPT ![p].lookup = LookupKind(cache[c], key, now),
                                    ![p].tokURL = app[c].authURL,
                                    ![p].sentTok = @ + 1]
            /\ UNCHANGED mu
    /\ UNCHANGED <<app, cache, now, opReqs, calls, workload, notification, decoded, creds, fs>>

\* variant: one cache map shared by all the instances of the package
TokenResponse_SharedCache(p, r) ==
    LET c   == ClientOf(p)
        key == app[c].consumerKey
        err == TokenError(r)
        stored == CacheStore(cache[c], key, DecodedInto(AuthorizationResponse(EmptyToken, ""), r.body), now)
        res == IF err # Nil THEN Result(EmptyToken, err)
               ELSE Result(stored[key].AccessToken, Nil)
    IN
    /\ pc[p] = "gat_inflight"
    /\ r \in Answers(TokenCtxDone(p), ProviderResponses(key, tokenReqs[c]))
    /\ cache' = IF err # Nil THEN cache ELSE [d \in Clients |-> CacheStore(cache[d], key, DecodedInto(AuthorizationResponse(EmptyToken, ""), r.body), now)]
    /\ mu' = Unlocked(mu, c)
    /\ pc' = [pc EXCEPT ![p] = AfterGAT(p, res)[1]]
    /\ call' = [call EXCEPT ![p].tokGot = <<r>>, ![p].gat = <<res>>, ![p].out = AfterGAT(p, res)[2]]
    /\ UNCHANGED <<app, now, tokenReqs, opReqs, calls, workload, notification, decoded, creds, fs>>

\* client.Do returns r for the token request: status check, decode, cache
\* write, return; the deferred Unlock runs on every path
TokenResponse(p, r) ==
    LET c   == ClientOf(p)
        key == app[c].consumerKey
        err == TokenError(r)
        stored == CacheStore(cache[c], key, DecodedInto(AuthorizationResponse(EmptyToken, ""), r.body), now)
        res == IF err # Nil THEN Result(EmptyToken, err)
               ELSE Result(stored[key].AccessToken, Nil)
    IN
    /\ pc[p] = "gat_inflight"
    /\ r \in Answers(TokenCtxDone(p), ProviderResponses(key, tokenReqs[c]))
    /\ cache' = IF err # Nil THEN cache ELSE [cache EXCEPT ![c] = stored]
    /\ mu' = Unlocked(mu, c)
    /\ pc' = [pc EXCEPT ![p] = AfterGAT(p, res)[1]]
    /\ call' = [call EXCEPT ![p].tokGot = <<r>>, ![p].gat = <<res>>, ![p].out = AfterGAT(p, res)[2]]
    /\ UNCHANGED <<app, now, tokenReqs, opReqs, calls, workload, notification, decoded, creds, fs>>

\* Start with the credential of the previous call of the caller kept
Start_StoredCredential(p, op, args) ==
    LET c   == ClientOf(p)
        credential == IF op \in CredentialOps /\ call[p].cred # << >> THEN Result(call[p].cred, Nil)
                      ELSE IF op \in CredentialOps
                      THEN getSecurityCredentials(app[c].environment, args.initiatorPwd, Draw(calls + 1))
                      ELSE Result(<< >>, Nil)
        err == IF Precheck(op, args) # Nil THEN Precheck(op, args) ELSE credential.err
    IN
    /\ pc[p] \in {"idle", "done"}
    /\ calls < MaxCalls
    /\ [op |-> op, args |-> args] \in workload[p]
    /\ calls' = calls + 1
    /\ IF err # Nil
       THEN /\ pc' = [pc EXCEPT ![p] = "done"]
            /\ call' = [call EXCEPT ![p] = [NoCall EXCEPT !.op = op, !.args = args, !.id = calls + 1,
                                                         !.out = <<Result(Nil, err)>>]]
       ELSE /\ pc' = [pc EXCEPT ![p] = "gat_lock"]
            /\ call' = [call EXCEPT ![p] =
                    [NoCall EXCEPT !.op = op, !.args = args, !.id = calls + 1,
                                   !.cred = credential.res,
                                   !.body = Payload(op, args, now),
                                   !.enteredAt = now,
                                   !.coldStart = ~CacheHit(cache[c], app[c].consumerKey, now),
                                   !.with = {call[q].id : q \in {x \in Procs \ {p} : ClientOf(x) = c /\ pc[x] \in InGAT}}]]
    /\ UNCHANGED <<app, cache, mu, now, tokenReqs, opReqs, workload, notification, decoded, creds, fs>>

(***************************************************************************)
(* The operations.                                                         *)
(***************************************************************************)
\* a caller starts a call: the operation's own checks, then (for an
\* operation) the payload is completed and marshalled and the request is
\* built, and GenerateAccessToken is entered
Start(p, op, args) ==
    LET c   == ClientOf(p)
        credential == IF op \in CredentialOps
                      THEN getSecurityCredentials(app[c].environment, args.initiatorPwd, Draw(calls + 1))
                      ELSE Result(<< >>, Nil)
        err == IF Precheck(op, args) # Nil THEN Precheck(op, args) ELSE credential.err
    IN
    /\ pc[p] \in {"idle", "done"}
    /\ calls < MaxCalls
    /\ [op |-> op, args |-> args] \in workload[p]
    /\ calls' = calls + 1
    /\ IF err # Nil
       THEN /\ pc' = [pc EXCEPT ![p] = "done"]
            /\ call' = [call EXCEPT ![p] = [NoCall EXCEPT !.op = op, !.args = args, !.id = calls + 1,
                                                         !.out = <<Result(Nil, err)>>]]
       ELSE /\ pc' = [pc EXCEPT ![p] = "gat_lock"]
            /\ call' = [call EXCEPT ![p] =
                    [NoCall EXCEPT !.op = op, !.args = args, !.id = calls + 1,
                                   !.cred = credential.res,
                                   !.body = Payload(op, args, now),
                                   !.enteredAt = now,
                                   !.coldStart = ~CacheHit(cache[c], app[c].consumerKey, now),
                                   !.with = {call[q].id : q \in {x \in Procs \ {p} : ClientOf(x) = c /\ pc[x] \in InGAT}}]]
    /\ UNCHANGED <<app, cache, mu, now, tokenReqs, opReqs, workload, notification, decoded, creds, fs>>

\* variant: the error of GenerateAccessToken is ignored and the request goes out
\* the headers makeHttpRequestWithToken adds to the operation request
RequestHeaders_NoContentType(accessToken) ==
    [ContentType |-> "", Authorization |-> <<"Bearer ", accessToken>>]

RequestHeaders(accessToken) ==
    [ContentType |-> "application/json", Authorization |-> <<"Bearer ", accessToken>>]

Send_Unauthenticated(p) ==
    LET c == ClientOf(p)
        g == call[p].gat[1]
    IN
    /\ pc[p] = "gat_ret"
    /\ pc' = [pc EXCEPT ![p] = "op_inflight"]
    /\ call' = [call EXCEPT ![p].bearer = RequestHeaders(g.res).Authorization,
                            ![p].contentType = RequestHeaders(g.res).ContentType,
                                    ![p].opURL = Endpoint(app[c], call[p].op),
                                    ![p].sentOp = @ + 1]
    /\ opReqs' = [opReqs EXCEPT ![c] = @ + 1]
    /\ UNCHANGED <<app, cache, mu, now, tokenReqs, calls, workload, notification, decoded, creds, fs>>

\* makeHttpRequestWithToken after GenerateAccessToken has returned: on an
\* error it returns that error, otherwise it sets the headers and hands the
\* request to client.Do
Send(p) ==
    LET c == ClientOf(p)
        g == call[p].gat[1]
    IN
    /\ pc[p] = "gat_ret"
    /\ IF g.err # Nil
       THEN /\ pc' = [pc EXCEPT ![p] = "done"]
            /\ call' = [call EXCEPT ![p].out = <<Result(Nil, OnRequestError(call[p].op, g.err))>>]
            /\ UNCHANGED opReqs
       ELSE /\ pc' = [pc EXCEPT ![p] = "op_inflight"]
            /\ call' = [call EXCEPT ![p].bearer = RequestHeaders(g.res).Authorization,
                                    ![p].contentType = RequestHeaders(g.res).ContentType,
                                    ![p].opURL = Endpoint(app[c], call[p].op),
                                    ![p].sentOp = @ + 1]
            /\ opReqs' = [opReqs EXCEPT ![c] = @ + 1]
    /\ UNCHANGED <<app, cache, mu, now, tokenReqs, calls, workload, notification, decoded, creds, fs>>

\* variant: a request that failed in transport is sent once more
\* what the return of an operation does to the cache of its client
CacheAfterOperation_Invalidate(cch, key, out) ==
    IF out.err # Nil THEN [k \in DOMAIN cch \ {key} |-> cch[k]] ELSE cch

\* the operations do not touch m.cache once the response is there
CacheAfterOperation(cch, key, out) == cch

OpResponse_Retry(p, r) ==
    /\ pc[p] = "op_inflight"
    /\ r \in Answers(OpCtxDone(p), EndpointResponses(call[p].op))
    /\ IF r.doErr /\ call[p].sentOp < 2
       THEN /\ pc' = pc
            /\ call' = [call EXCEPT ![p].sentOp = @ + 1]
            /\ opReqs' = [opReqs EXCEPT ![ClientOf(p)] = @ + 1]
            /\ UNCHANGED <<cache, fs>>
       ELSE IF NilDereference(call[p].op, r)
       THEN /\ pc' = [pc EXCEPT ![p] = "panicked"]
            /\ call' = [call EXCEPT ![p].got = <<r>>]
            /\ UNCHANGED <<cache, fs, opReqs>>
       ELSE \E io \in FileOutcomes(call[p].op, call[p].args, r, fs) :
            LET o == OpOutcome(call[p].op, call[p].args, r, fs, io) IN
            /\ pc' = [pc EXCEPT ![p] = "done"]
            /\ call' = [call EXCEPT ![p].got = <<r>>, ![p].ioErr = io, ![p].out = <<o.out>>]
            /\ cache' = [cache EXCEPT ![ClientOf(p)] =
                            CacheAfterOperation(@, app[ClientOf(p)].consumerKey, o.out)]
            /\ fs' = o.fs
            /\ UNCHANGED opReqs
    /\ UNCHANGED <<app, mu, now, tokenReqs, calls, workload, notification, decoded, creds>>

\* client.Do returns r for the operation's request: decode and classify,
\* and for DynamicQR with decodeImage write the image.  A call that panics
\* returns nothing: its goroutine unwinds (the deferred Close of the body
\* runs) and makes no further call; whether the other callers go on is
\* up to a recover in the program that uses the package
OpResponse(p, r) ==
    /\ pc[p] = "op_inflight"
    /\ r \in Answers(OpCtxDone(p), EndpointResponses(call[p].op))
    /\ IF NilDereference(call[p].op, r)
       THEN /\ pc' = [pc EXCEPT ![p] = "panicked"]
            /\ call' = [call EXCEPT ![p].got = <<r>>]
            /\ UNCHANGED <<cache, fs>>
       ELSE \E io \in FileOutcomes(call[p].op, call[p].args, r, fs) :
            LET o == OpOutcome(call[p].op, call[p].args, r, fs, io) IN
            /\ pc' = [pc EXCEPT ![p] = "done"]
            /\ call' = [call EXCEPT ![p].got = <<r>>, ![p].ioErr = io, ![p].out = <<o.out>>]
            /\ cache' = [cache EXCEPT ![ClientOf(p)] =
                            CacheAfterOperation(@, app[ClientOf(p)].consumerKey, o.out)]
            /\ fs' = o.fs
    /\ UNCHANGED <<app, mu, now, tokenReqs, opReqs, calls, workload, notification, decoded, creds>>

\* time passes
Tick(d) ==
    /\ now + d <= MaxNow
    /\ now' = now + d
    /\ UNCHANGED <<app, cache, mu, pc, call, tokenReqs, opReqs, calls, workload, notification, decoded, creds, fs>>

Next ==
    \/ \E p \in Procs : \E w \in workload[p] : Start(p, w.op, w.args)
    \/ \E p \in Procs : Lock(p)
    \/ \E p \in Procs : Lookup(p)
    \/ \E p \in Procs : \E r \in TokenResponses(app[ClientOf(p)].consumerKey, tokenReqs[ClientOf(p)]) :
            TokenResponse(p, r)
    \/ \E p \in Procs : Send(p)
    \/ \E p \in Procs : \E r \in EndpointResponses(call[p].op) : OpResponse(p, r)
    \/ \E d \in TickSteps : Tick(d)

Spec == Init /\ [][Next]_vars

(***************************************************************************)
(* Cancellation and progress.  The caller of a call may cancel its context *)
(* while the call is under way; what the transport does with a request     *)
(* whose context is done is the transport's affair.  The mutex is          *)
(* eventually handed to a caller that waits for it (sync.Mutex does not    *)
(* starve a waiter), a caller that is not blocked goes on, and every HTTP  *)
(* call returns.                                                           *)
(***************************************************************************)
\* the caller of the call of p cancels its context, or the deadline of the context passes
Cancel(p) ==
    /\ pc[p] \notin {"idle", "done", "panicked"}
    /\ call[p].args.ctx # NilContext
    /\ ~CtxDone(p)
    /\ call' = [call EXCEPT ![p].cancelAt = pc[p]]
    /\ UNCHANGED <<app, cache, mu, now, pc, tokenReqs, opReqs, calls, workload,
                   notification, decoded, creds, fs>>

\* caller 1 asks for the token or makes a charge, caller 2 asks for the token,
\* with a context or with none
LiveWorkload ==
    [p \in Procs |->
        CASE p = 1 -> {TokenCall, PushCall}
          [] p = 2 -> {TokenCall, NilContextCall}
          [] OTHER -> {}]

LiveInit ==
    /\ app = [c \in Clients |->
                IF c = "app1" THEN NewApp("key1", "secret1", Sandbox)
                              ELSE NewApp("key2", "secret2", Production)]
    /\ cache = [c \in Clients |-> EmptyCache]
    /\ mu = [c \in Clients |-> NoProc]
    /\ now = 0
    /\ pc = [p \in Procs |-> "idle"]
    /\ call = [p \in Procs |-> NoCall]
    /\ tokenReqs = [c \in Clients |-> 0]
    /\ opReqs = [c \in Clients |-> 0]
    /\ calls = 0
    /\ workload = LiveWorkload
    /\ notification = NoNotification
    /\ decoded = NoneDecoded
    /\ creds = << >>
    /\ fs = NoFiles

\* one answer of the token endpoint for each way GenerateAccessToken ends
\* once its request is out: a transport error, a status other than 200,
\* a body that does not decode, a token
LiveTokenResponses(key, n) ==
    {r \in TokenResponses(key, n) :
        \/ r.doErr
        \/ r.body = BadBody
        \/ r.status = StatusOK /\ r.body = <<AuthorizationResponse(<<key, n>>, "3599")>>}

\* the same for the endpoint of an operation: a transport error, a body
\* that does not decode, an envelope with an error code and one without
LiveOpResponses(op) ==
    {r \in EndpointResponses(op) :
        \/ r.doErr
        \/ r.status = StatusOK /\ r.body = BadBody
        \/ r.body \in {<<Envelope("", SuccessResultCode)>>, <<Envelope("401.002.01", "")>>}}

LiveNext ==
    \/ \E p \in Procs : \E w \in workload[p] : calls < MaxLiveCalls /\ Start(p, w.op, w.args)
    \/ \E p \in Procs : Lock(p)
    \/ \E p \in Procs : Lookup(p)
    \/ \E p \in Procs :
            \E r \in LiveTokenResponses(app[ClientOf(p)].consumerKey, tokenReqs[ClientOf(p)]) :
                TokenResponse(p, r)
    \/ \E p \in Procs : Send(p)
    \/ \E p \in Procs : \E r \in LiveOpResponses(call[p].op) : OpResponse(p, r)

Fairness ==
    \A p \in Procs :
        /\ SF_vars(Lock(p))
        /\ WF_vars(Lookup(p))
        /\ WF_vars(\E r \in LiveTokenResponses(app[ClientOf(p)].consumerKey, tokenReqs[ClientOf(p)]) :
                        TokenResponse(p, r))
        /\ WF_vars(Send(p))
        /\ WF_vars(\E r \in LiveOpResponses(call[p].op) : OpResponse(p, r))

LiveSpec == LiveInit /\ [][LiveNext]_vars /\ Fairness

\* the same callers, whose contexts may be cancelled
CancelNext ==
    \/ \E p \in Procs : \E w \in workload[p] : calls < MaxLiveCalls /\ Start(p, w.op, w.args)
    \/ \E p \in Procs : Lock(p)
    \/ \E p \in Procs : Lookup(p)
    \/ \E p \in Procs : \E r \in Answers(TokenCtxDone(p),
                                LiveTokenResponses(app[ClientOf(p)].consumerKey, tokenReqs[ClientOf(p)])) :
            TokenResponse(p, r)
    \/ \E p \in Procs : Send(p)
    \/ \E p \in Procs : \E r \in Answers(OpCtxDone(p), LiveOpResponses(call[p].op)) : OpResponse(p, r)
    \/ \E p \in Procs : Cancel(p)

\* A server may never answer: client.Do is only sure to return for a
\* request whose context is done (net/http gives the request up,
\* mockHttpClient answers at once).  Callers that are not blocked go on,
\* and the mutex is handed to a caller that waits for it.
CancelFairness ==
    \A p \in Procs :
        /\ SF_vars(Lock(p))
        /\ WF_vars(Lookup(p))
        /\ WF_vars(TokenCtxDone(p) /\
                   \E r \in Answers(TokenCtxDone(p),
                        LiveTokenResponses(app[ClientOf(p)].consumerKey, tokenReqs[ClientOf(p)])) :
                        TokenResponse(p, r))
        /\ WF_vars(Send(p))
        /\ WF_vars(OpCtxDone(p) /\ \E r \in Answers(OpCtxDone(p), LiveOpResponses(call[p].op)) : OpResponse(p, r))

CancelSpec == LiveInit /\ [][CancelNext]_vars /\ CancelFairness

(***************************************************************************)
(* The functions of the package that use no client state: the callback     *)
(* decoders, called on one notification in each shape an input can take.   *)
(***************************************************************************)

\* the JSON texts a provider may send for the callback cb: the members in
\* the order of the struct, in another order, or with a member the struct
\* has no field for
Renderings(type, cb) ==
    LET m == MarshalFields(type, cb, 1)
    IN { <<OpenBrace>> \o m \o <<CloseBrace>>,
         <<OpenBrace, m[2], m[1], CloseBrace>>,
         <<OpenBrace, m[1], Member("ResultDesc", "string", "done"), m[2], CloseBrace>> }

\* texts that do not decode into the struct: nothing, an object cut short,
\* a string where the struct has an object, a number where it has a string
MalformedTexts(type) ==
    LET m == MarshalFields(type, <<"ws_CO_191220191020363925", "1032">>, 1)
    IN { << >>,
         <<OpenBrace, m[1]>>,
         <<Scalar("string", "ok")>>,
         <<OpenBrace, Member(m[1][1], "number", "12"), m[2], CloseBrace>> }

\* a notification: the target type, the text, and the callback the text
\* stands for (none for a text that does not decode)
Notifications ==
    UNION {
        {[type |-> t, text |-> x, value |-> <<cb>>] : x \in Renderings(t, cb)} : 
            <<t, cb>> \in CallbackTypes \X {<<"ws_CO_191220191020363925", "0">>,
                                               <<"ws_CO_191220191020363925", "1032">>} } \cup
    UNION { {[type |-> t, text |-> x, value |-> << >>] : x \in MalformedTexts(t)} : t \in CallbackTypes }

\* the shapes in which a notification is handed to a decoder: its text as a
\* string, as a []byte, as the body of an *http.Request (read to the end,
\* or failing in the middle), as another io.Reader, the callback as a
\* struct, and a value json cannot marshal
Shapes == {"string", "bytes", "request", "brokenRequest", "reader", "typed", "unsupported"}

ShapesOf(n) == IF n.value = << >> THEN Shapes \ {"typed"} ELSE Shapes

Input(shape, n) ==
    [ shape   |-> IF shape = "brokenRequest" THEN "request" ELSE shape,
      type    |-> n.type,
      text    |-> n.text,
      value   |-> IF n.value = << >> THEN << >> ELSE n.value[1],
      readErr |-> shape = "brokenRequest" ]

LibInit ==
    /\ app = [c \in Clients |->
                IF c = "app1" THEN NewApp("key1", "secret1", Sandbox)
                              ELSE NewApp("key2", "secret2", Production)]
    /\ cache = [c \in Clients |-> EmptyCache]
    /\ mu = [c \in Clients |-> NoProc]
    /\ now = 0
    /\ pc = [p \in Procs |-> "idle"]
    /\ call = [p \in Procs |-> NoCall]
    /\ tokenReqs = [c \in Clients |-> 0]
    /\ opReqs = [c \in Clients |-> 0]
    /\ calls = 0
    /\ workload = SoloWorkload
    /\ notification \in Notifications
    /\ decoded = NoneDecoded
    /\ creds = << >>
    /\ fs = NoFiles

\* UnmarshalSTKPushCallback / UnmarshalB2CCallback is called with the
\* notification in one more shape
Decode(shape) ==
    /\ shape \in ShapesOf(notification) \ DOMAIN decoded
    /\ decoded' = (shape :> UnmarshalCallback(notification.type, Input(shape, notification)))
                        @@ decoded
    /\ UNCHANGED <<app, cache, mu, now, pc, call, tokenReqs, opReqs, calls, workload,
                   notification, creds, fs>>

LibNext ==
    \/ \E shape \in Shapes : Decode(shape)

LibSpec == LibInit /\ [][LibNext]_vars

(***************************************************************************)
(* getSecurityCredentials, called over and over on the two clients.        *)
(***************************************************************************)
\* number of credentials generated
MaxCreds == 3

\* a password longer than the key of the certificate can encrypt
Fifty == "0123456789012345678901234567890123456789abcdefghij"
LongPassword == Fifty \o Fifty \o Fifty \o Fifty \o Fifty


CredInit ==
    /\ app = [c \in Clients |->
                IF c = "app1" THEN NewApp("key1", "secret1", Sandbox)
                              ELSE NewApp("key2", "secret2", Production)]
    /\ cache = [c \in Clients |-> EmptyCache]
    /\ mu = [c \in Clients |-> NoProc]
    /\ now = 0
    /\ pc = [p \in Procs |-> "idle"]
    /\ call = [p \in Procs |-> NoCall]
    /\ tokenReqs = [c \in Clients |-> 0]
    /\ opReqs = [c \in Clients |-> 0]
    /\ calls = 0
    /\ workload = SoloWorkload
    /\ notification = NoNotification
    /\ decoded = NoneDecoded
    /\ creds = << >>
    /\ fs = NoFiles

\* m.getSecurityCredentials(password) on client c
GetSecurityCredentials(c, password) ==
    /\ Len(creds) < MaxCreds
    /\ creds' = Append(creds,
            [ client   |-> c,
              password |-> password,
              out      |-> getSecurityCredentials(app[c].environment, password,
                                                  Draw(Len(creds) + 1)) ])
    /\ UNCHANGED <<app, cache, mu, now, pc, call, tokenReqs, opReqs, calls, workload,
                   notification, decoded, fs>>

CredNext ==
    \/ \E c \in Clients : \E password \in {"", "random-string", "Safaricom999!*!", LongPassword} : GetSecurityCredentials(c, password)

CredSpec == CredInit /\ [][CredNext]_vars

(***************************************************************************)
(* One client used for everything: a caller makes the operations one       *)
(* after the other while notifications are decoded on the same client.     *)
(***************************************************************************)
ClientWorkload ==
    [p \in Procs |->
        IF p = 1
        THEN {PushCall, PayoutCall,
              [op |-> "STKQuery", args |-> Args("passkey", "", << >>, "")],
              [op |-> "RegisterC2BURL",
               args |-> Args("", "", <<"https", "https">>, ResponseTypeComplete)],
              [op |-> "DynamicQR",
               args |-> QRArgs(DynamicQRRequest(<<"Test", " ", "Supermarket">>, 10, <<"111222">>), TRUE)],
              [op |-> "GetTxnStatus",
               args |-> Args("", "random-string", <<"https", "https">>, "")]}
        ELSE {}]

ClientInit ==
    /\ app = [c \in Clients |->
                IF c = "app1" THEN NewApp("key1", "secret1", Sandbox)
                              ELSE NewApp("key2", "secret2", Production)]
    /\ cache = [c \in Clients |-> EmptyCache]
    /\ mu = [c \in Clients |-> NoProc]
    /\ now = 0
    /\ pc = [p \in Procs |-> "idle"]
    /\ call = [p \in Procs |-> NoCall]
    /\ tokenReqs = [c \in Clients |-> 0]
    /\ opReqs = [c \in Clients |-> 0]
    /\ calls = 0
    /\ workload = ClientWorkload
    /\ notification \in {n \in Notifications : n.value = <<<<"ws_CO_191220191020363925", "0">>>>
                                                /\ Len(n.text) = 4}
    /\ decoded = NoneDecoded
    /\ creds = << >>
    /\ fs = NoFiles

ClientNext ==
    \/ \E p \in Procs : \E w \in workload[p] : calls < MaxLiveCalls /\ Start(p, w.op, w.args)
    \/ \E p \in Procs : Lock(p)
    \/ \E p \in Procs : Lookup(p)
    \/ \E p \in Procs : \E r \in TokenResponses(app[ClientOf(p)].consumerKey, tokenReqs[ClientOf(p)]) :
            TokenResponse(p, r)
    \/ \E p \in Procs : Send(p)
    \/ \E p \in Procs : \E r \in EndpointResponses(call[p].op) : OpResponse(p, r)
    \/ \E shape \in {"string", "request", "typed"} : Decode(shape)

ClientSpec == ClientInit /\ [][ClientNext]_vars

(***************************************************************************)
(* Two callers of one client making operations, where the provider may     *)
(* leave an operation request unanswered for ever: token requests are      *)
(* answered, callers that are not blocked go on, the mutex is handed to a  *)
(* caller that waits for it.                                               *)
(***************************************************************************)
HangWorkload ==
    [p \in Procs |->
        CASE p = 1 -> {PushCall}
          [] p = 2 -> {TokenCall, PushCall}
          [] OTHER -> {}]

HangInit ==
    /\ app = [c \in Clients |->
                IF c = "app1" THEN NewApp("key1", "secret1", Sandbox)
                              ELSE NewApp("key2", "secret2", Production)]
    /\ cache = [c \in Clients |-> EmptyCache]
    /\ mu = [c \in Clients |-> NoProc]
    /\ now = 0
    /\ pc = [p \in Procs |-> "idle"]
    /\ call = [p \in Procs |-> NoCall]
    /\ tokenReqs = [c \in Clients |-> 0]
    /\ opReqs = [c \in Clients |-> 0]
    /\ calls = 0
    /\ workload = HangWorkload
    /\ notification = NoNotification
    /\ decoded = NoneDecoded
    /\ creds = << >>
    /\ fs = NoFiles

HangNext ==
    \/ \E p \in Procs : \E w \in workload[p] : Start(p, w.op, w.args)
    \/ \E p \in Procs : Lock(p)
    \/ \E p \in Procs : Lookup(p)
    \/ \E p \in Procs : \E r \in TokenResponses(app[ClientOf(p)].consumerKey, tokenReqs[ClientOf(p)]) :
            TokenResponse(p, r)
    \/ \E p \in Procs : Send(p)
    \/ \E p \in Procs : \E r \in EndpointResponses(call[p].op) : OpResponse(p, r)

HangFairness ==
    \A p \in Procs :
        /\ SF_vars(Lock(p))
        /\ WF_vars(Lookup(p))
        /\ WF_vars(\E r \in TokenResponses(app[ClientOf(p)].consumerKey, tokenReqs[ClientOf(p)]) :
                        TokenResponse(p, r))
        /\ WF_vars(Send(p))

HangSpec == HangInit /\ [][HangNext]_vars /\ HangFairness

(***************************************************************************)
(* Callers of GenerateAccessToken against a provider that chooses the      *)
(* expires_in of its tokens, with time passing.                            *)
(***************************************************************************)
ExpiryWorkload == [p \in Procs |-> IF p \in {1, 2} THEN {TokenCall} ELSE {}]

ExpiryInit ==
    /\ app = [c \in Clients |->
                IF c = "app1" THEN NewApp("key1", "secret1", Sandbox)
                              ELSE NewApp("key2", "secret2", Production)]
    /\ cache = [c \in Clients |-> EmptyCache]
    /\ mu = [c \in Clients |-> NoProc]
    /\ now = 0
    /\ pc = [p \in Procs |-> "idle"]
    /\ call = [p \in Procs |-> NoCall]
    /\ tokenReqs = [c \in Clients |-> 0]
    /\ opReqs = [c \in Clients |-> 0]
    /\ calls = 0
    /\ workload = ExpiryWorkload
    /\ notification = NoNotification
    /\ decoded = NoneDecoded
    /\ creds = << >>
    /\ fs = NoFiles

ExpiryNext ==
    \/ \E p \in Procs : \E w \in workload[p] : Start(p, w.op, w.args)
    \/ \E p \in Procs : Lock(p)
    \/ \E p \in Procs : Lookup(p)
    \/ \E p \in Procs : \E r \in ProviderResponses(app[ClientOf(p)].consumerKey, tokenReqs[ClientOf(p)]) :
            TokenResponse(p, r)
    \/ \E d \in TickSteps : Tick(d)

ExpirySpec == ExpiryInit /\ [][ExpiryNext]_vars

(***************************************************************************)
(* A burst: three callers enter GenerateAccessToken of one instance, whose *)
(* token endpoint may fail.                                                *)
(***************************************************************************)
BurstInit ==
    /\ app = [c \in Clients |->
                IF c = "app1" THEN NewApp("key1", "secret1", Sandbox)
                              ELSE NewApp("key2", "secret2", Production)]
    /\ cache = [c \in Clients |-> EmptyCache]
    /\ mu = [c \in Clients |-> NoProc]
    /\ now = 0
    /\ pc = [p \in Procs |-> "idle"]
    /\ call = [p \in Procs |-> NoCall]
    /\ tokenReqs = [c \in Clients |-> 0]
    /\ opReqs = [c \in Clients |-> 0]
    /\ calls = 0
    /\ workload = BurstWorkload
    /\ notification = NoNotification
    /\ decoded = NoneDecoded
    /\ creds = << >>
    /\ fs = NoFiles

\* the callers of the burst and the clock; each endpoint gives one answer
\* for each way the call ends
BurstNext ==
    \/ \E p \in Procs : \E w \in workload[p] : Start(p, w.op, w.args)
    \/ \E p \in Procs : Lock(p)
    \/ \E p \in Procs : Lookup(p)
    \/ \E p \in Procs :
            \E r \in LiveTokenResponses(app[ClientOf(p)].consumerKey, tokenReqs[ClientOf(p)]) :
                TokenResponse(p, r)
    \/ \E p \in Procs : Send(p)
    \/ \E p \in Procs : \E r \in LiveOpResponses(call[p].op) : OpResponse(p, r)
    \/ \E d \in TickSteps : Tick(d)

BurstSpec == BurstInit /\ [][BurstNext]_vars

(***************************************************************************)
(* Vocabulary of the properties.                                           *)
(***************************************************************************)
KeyOf(p) == app[ClientOf(p)].consumerKey
CacheOf(p) == cache[ClientOf(p)]

\* GenerateAccessToken has returned to the call caller p is in
Returned(p) == call[p].gat # << >>
TokenResult(p) == call[p].gat[1]
\* the token response of the call caller p is in
TokenResponseOf(p) == call[p].tokGot[1]
\* the token request of the call of caller p has failed: in transport,
\* by its status, or by its body
RefreshFailed(r) == r.doErr \/ r.status # StatusOK \/ DecodeErr(r.body) # Nil

\* the call caller p is in entered GenerateAccessToken while the call
\* caller q is in was inside it, on the same instance, and both entered
\* with no fresh entry in the cache
Burst(p, q) ==
    /\ p # q
    /\ ClientOf(p) = ClientOf(q)
    /\ call[q].id \in call[p].with
    /\ call[p].coldStart
    /\ call[q].coldStart

\* a call of an operation has returned after its response was decoded
Decoded(p) ==
    /\ pc[p] = "done"
    /\ call[p].got # << >>
    /\ ~call[p].got[1].doErr
    /\ DecodeErr(call[p].got[1].body) = Nil
EnvelopeOf(p) == DecodedInto(Envelope("", ""), call[p].got[1].body)
Outcome(p) == call[p].out[1]

\* the error err carries the text s
Carries(err, s) == \E i \in DOMAIN err : err[i] = s

(***************************************************************************)
(* C1.  Concurrent callers on a cold or stale cache.                       *)
(***************************************************************************)
\* the groups of N >= 2 callers
Groups == {B \in SUBSET Procs : Cardinality(B) >= 2}

\* the callers of B have invoked GenerateAccessToken concurrently on one
\* instance whose cache had no fresh entry: each two of them were inside
\* it at the same time, and all have returned
Together(B) ==
    /\ \A p \in B : Returned(p)
    /\ \A p, q \in B : p # q => Burst(p, q) \/ Burst(q, p)

\* no other caller used the instance meanwhile: a caller of the instance
\* outside B has made no call, or its last call started before those of B
\* and had left GenerateAccessToken when they entered
Alone(B) ==
    \A p \in B : \A r \in Procs \ B :
        ClientOf(r) = ClientOf(p) =>
            \/ call[r].id = 0
            \/ call[r].id < call[p].id /\ call[r].id \notin call[p].with

\* less than accessTokenTTL has passed since the first of B entered
InTime(B) == \A p \in B : now < call[p].enteredAt + accessTokenTTL

\* the callers of B that sent a token request, those whose request failed
\* and those whose request succeeded
Sent(B) == {p \in B : call[p].sentTok > 0}
Refused(B) == {p \in Sent(B) : TokenResult(p).err # Nil}
Refreshed(B) == {p \in Sent(B) : TokenResult(p).err = Nil}

\* C1 as stated: when N >= 2 callers have invoked GenerateAccessToken of
\* one instance concurrently, starting from a cache without a fresh entry,
\* and all have returned, exactly one token request was sent by them
\* and all got the same token.
C1_AsStated ==
    \A B \in Groups :
        (Together(B) /\ Alone(B)) =>
            /\ Cardinality(Sent(B)) = 1
            /\ \A p \in B : call[p].sentTok <= 1
            /\ \A p, q \in B : TokenResult(p).res = TokenResult(q).res

\* C1 amended: when N >= 2 callers have invoked GenerateAccessToken of one
\* instance concurrently, starting from a cache without a fresh entry, and
\* all have returned less than accessTokenTTL after the first of them
\* entered: each caller sent at most one token request and at most one
\* token request succeeded.  A caller whose request failed returned the
\* error of the request and an empty token, and left nothing in the cache:
\* when every request failed, each of the N callers has sent one of its
\* own and the cache still has no fresh entry.  When one succeeded, every
\* caller whose request did not fail returned the token of that one
\* request, and all but its sender without sending a request; the number
\* of token requests is the number of failed ones plus one, exactly one
\* when none failed.
C1_SingleRefresh ==
    \A B \in Groups :
        (Together(B) /\ Alone(B) /\ InTime(B)) =>
            /\ \A p \in B : call[p].sentTok <= 1
            /\ Cardinality(Refreshed(B)) <= 1
            /\ \A p \in Refused(B) :
                    /\ TokenResult(p) = Result(EmptyToken, TokenError(TokenResponseOf(p)))
                    /\ RefreshFailed(TokenResponseOf(p))
            /\ Refreshed(B) = {} =>
                    /\ Sent(B) = B
                    /\ \A p \in B : ~CacheHit(CacheOf(p), KeyOf(p), now)
            /\ \A w \in Refreshed(B) :
                    /\ ~RefreshFailed(TokenResponseOf(w))
                    /\ TokenResult(w).res = CacheOf(w)[KeyOf(w)].AccessToken
                    /\ \A p \in B \ Refused(B) :
                            /\ TokenResult(p) = TokenResult(w)
                            /\ p # w => call[p].sentTok = 0 /\ call[p].lookup = "fresh"
                    /\ Cardinality(Sent(B)) = Cardinality(Refused(B)) + 1
            /\ Refused(B) = {} =>
                    /\ Cardinality(Sent(B)) = 1
                    /\ \A p, q \in B : TokenResult(p) = TokenResult(q) /\ TokenResult(p).err = Nil

\* three callers of one burst have returned: the token request of the
\* first to take the mutex failed, the second sent a request of its own,
\* which succeeded, and the third returned the token of the second
\* without sending a request
C1_Witness ==
    \E B \in Groups :
        /\ Cardinality(B) = 3
        /\ Together(B) /\ Alone(B) /\ InTime(B)
        /\ Cardinality(Refused(B)) = 1 /\ Cardinality(Refreshed(B)) = 1
        /\ \E w \in Refreshed(B) : \E p \in B \ Sent(B) :
                /\ TokenResult(w).res # EmptyToken
                /\ TokenResult(p) = TokenResult(w)

(***************************************************************************)
(* C2.  Cache freshness.                                                   *)
(***************************************************************************)
\* the step in which caller p looks the cache up
LookupStep(p) == pc[p] = "gat_lookup" /\ pc'[p] # "gat_lookup"
\* the step in which the token request of caller p is answered
RefreshStep(p) == pc[p] = "gat_inflight" /\ pc'[p] # "gat_inflight"

\* a lookup at a time now < T + 55min, T the issue time of the stored
\* token, returns that token and sends nothing; a lookup at now >= T + 55min
\* sends one token request
C2_Lookup(p) ==
    LookupStep(p) /\ KeyOf(p) \in DOMAIN CacheOf(p) =>
        IF now < CacheOf(p)[KeyOf(p)].setAt + accessTokenTTL
        THEN /\ call'[p].gat = <<Result(CacheOf(p)[KeyOf(p)].AccessToken, Nil)>>
             /\ call'[p].sentTok = 0
             /\ tokenReqs' = tokenReqs
             /\ cache' = cache
        ELSE /\ tokenReqs' = [tokenReqs EXCEPT ![ClientOf(p)] = @ + 1]
             /\ call'[p].sentTok = 1
             /\ pc'[p] = "gat_inflight"

\* the new record is stored and its token returned
C2_Stored(p) ==
    /\ KeyOf(p) \in DOMAIN cache'[ClientOf(p)]
    /\ cache'[ClientOf(p)][KeyOf(p)].setAt = now
    /\ cache'[ClientOf(p)][KeyOf(p)] # CacheOf(p)[KeyOf(p)]
    /\ call'[p].gat = <<Result(cache'[ClientOf(p)][KeyOf(p)].AccessToken, Nil)>>
    /\ call'[p].sentTok = 1
    /\ tokenReqs' = tokenReqs

\* C2 as stated: a call at now < T + 55min returns the cached token and sends
\* no request; a call at now >= T + 55min sends exactly one token request,
\* stores the new record and returns the new token.
C2_AsStated ==
    [][\A p \in Procs :
        /\ C2_Lookup(p)
        /\ (RefreshStep(p) /\ call[p].lookup = "stale" => C2_Stored(p))]_vars

\* C2 amended: a call at now < T + 55min returns the cached token and sends
\* no request; a call at now >= T + 55min sends exactly one token request
\* and, when that request is answered without error, stores the new record
\* and returns the new token; when it is not, the call returns an error and
\* the stale record stays.
C2_Freshness ==
    [][\A p \in Procs :
        /\ C2_Lookup(p)
        /\ (RefreshStep(p) /\ call[p].lookup = "stale" =>
                IF call'[p].gat[1].err = Nil
                THEN C2_Stored(p)
                ELSE /\ cache' = cache
                     /\ call'[p].gat[1].res = EmptyToken
                     /\ call'[p].sentTok = 1
                     /\ tokenReqs' = tokenReqs)]_vars

\* a token issued at 0 was found stale at minute 55 by one caller, who
\* stored and returned a new one, and the new one was then served from the
\* cache to another caller
C2_Witness ==
    \E p, q \in Procs :
        /\ p # q /\ ClientOf(p) = ClientOf(q)
        /\ call[p].lookup = "stale" /\ Returned(p) /\ TokenResult(p).err = Nil
        /\ call[q].lookup = "fresh" /\ Returned(q)
        /\ TokenResult(q).res = TokenResult(p).res
        /\ CacheOf(p)[KeyOf(p)].AccessToken = TokenResult(p).res
        /\ CacheOf(p)[KeyOf(p)].setAt = accessTokenTTL

(***************************************************************************)
(* C3.  The critical section of GenerateAccessToken.                       *)
(***************************************************************************)
\* the callers of instance c between m.mu.Lock() and the deferred Unlock
Holders(c) == {p \in Procs : ClientOf(p) = c /\ pc[p] \in {"gat_lookup", "gat_inflight"}}

C3_Exclusive ==
    \A c \in Clients :
        /\ Cardinality(Holders(c)) <= 1
        /\ Cardinality({p \in Holders(c) : pc[p] = "gat_inflight"}) <= 1
        /\ \A p \in Holders(c) : mu[c] = p
        /\ mu[c] # NoProc => mu[c] \in Holders(c)

C3_UnderLock ==
    \A p \in Procs :
        LET c == ClientOf(p) IN
        /\ (call'[p].lookup # call[p].lookup /\ call'[p].id = call[p].id) => mu[c] = p
        /\ (cache'[c] # cache[c] /\ pc'[p] # pc[p]) => mu[c] = p
        /\ cache'[c] # cache[c] => mu[c] # NoProc

\* C3: at most one caller of an instance is between the lock and the unlock
\* of GenerateAccessToken, so at most one token request of the instance is
\* in flight; every read and every write of the cache is made by the
\* caller that holds the mutex.
C3_CriticalSection == []C3_Exclusive /\ [][C3_UnderLock]_vars

\* one caller holds the mutex with its token request in flight while
\* another caller of the same instance waits for the mutex
C3_Witness ==
    \E p, q \in Procs :
        /\ p # q /\ ClientOf(p) = ClientOf(q)
        /\ pc[p] = "gat_inflight" /\ mu[ClientOf(p)] = p
        /\ pc[q] = "gat_lock"

(***************************************************************************)
(* C4.  Isolation of the instances.                                        *)
(***************************************************************************)
\* token t was issued to the consumer key of instance c
IssuedTo(t, c) == t = EmptyToken \/ t[1] = app[c].consumerKey

C4_OwnEntries ==
    \A c \in Clients :
        /\ \A k \in DOMAIN cache[c] :
                k = app[c].consumerKey /\ IssuedTo(cache[c][k].AccessToken, c)
        /\ \A p \in Procs :
                (ClientOf(p) = c /\ Returned(p) /\ TokenResult(p).err = Nil) =>
                    IssuedTo(TokenResult(p).res, c)

C4_OwnWrites ==
    \A c \in Clients :
        cache'[c] # cache[c] =>
            \E p \in Procs : ClientOf(p) = c /\ RefreshStep(p)

\* C4: with two instances of different consumer keys, the cache of each
\* holds only an entry under its own key and only tokens it fetched itself,
\* each returns only tokens issued to its own key, and a refresh by one
\* leaves the cache of the other as it was.
C4_Isolation == []C4_OwnEntries /\ [][C4_OwnWrites]_vars

\* both instances have fetched and stored a token, and the tokens differ
C4_Witness ==
    /\ \A c \in Clients : app[c].consumerKey \in DOMAIN cache[c]
    /\ cache["app1"][app["app1"].consumerKey].AccessToken # EmptyToken
    /\ cache["app2"][app["app2"].consumerKey].AccessToken # EmptyToken
    /\ cache["app1"][app["app1"].consumerKey].AccessToken
            # cache["app2"][app["app2"].consumerKey].AccessToken

(***************************************************************************)
(* C5, C6.  Classification of the response envelope.                       *)
(***************************************************************************)
\* the call of caller p has failed: no result, an error
Failed(p) == Outcome(p).res = Nil /\ Outcome(p).err # Nil
\* the envelope a successful call of caller p returns: the decoded one,
\* with the path of the image when DynamicQR has written it
ReturnedEnvelope(p) ==
    IF WritesImage(call[p].op, call[p].args, call[p].got[1])
    THEN [EnvelopeOf(p) EXCEPT !.ImagePath = Filename(ImagesDir("/go/src/mpesa"), call[p].args.qr)]
    ELSE EnvelopeOf(p)
\* the call of caller p has succeeded with the decoded envelope
Succeeded(p) == Outcome(p) = Result(<<ReturnedEnvelope(p)>>, Nil)
\* the errors of DynamicQR while it decodes and writes the image
ImageErrors ==
    {"mpesa: failed to decode png: %v", "mpesa: failed to get working dir: %v",
     "mpesa: failed to create images dir: %v", "mpesa: failed to open png file: %v",
     "mpesa: failed to encode png: %v"}
\* DynamicQR called with decodeImage has failed on the image
ImageFailed(p) ==
    /\ call[p].op = "DynamicQR" /\ call[p].args.decodeImage
    /\ Failed(p)
    /\ \E f \in ImageErrors : Carries(Outcome(p).err, f)

\* C5 as stated: for every operation, an envelope with an empty errorCode
\* and ResponseCode "0" is a success; an envelope with a non-empty errorCode
\* is a business error that carries the code and the message of the envelope.
C5_AsStated ==
    \A p \in Procs :
        (Decoded(p) /\ call[p].op \in CodeOps) =>
            /\ (EnvelopeOf(p).ErrorCode = "" /\ EnvelopeOf(p).ResponseCode = "0")
                    => Succeeded(p)
            /\ EnvelopeOf(p).ErrorCode # "" =>
                    /\ Failed(p)
                    /\ Carries(Outcome(p).err, EnvelopeOf(p).ErrorCode)
                    /\ Carries(Outcome(p).err, EnvelopeOf(p).ErrorMessage)

\* C6 as stated: for every operation, an envelope whose ResponseCode is
\* present and not "0" is a failure, even with an empty errorCode and
\* status 200.
C6_AsStated ==
    \A p \in Procs :
        (Decoded(p) /\ call[p].op \in Ops
            /\ EnvelopeOf(p).ResponseCode \notin {"", "0"}) => Failed(p)

\* C6, what the code does: of the operations whose code is in the
\* repository, GetTxnStatus alone looks at ResponseCode: it fails whenever
\* ResponseCode is not "0", even with an empty errorCode and status 200;
\* STKPush, STKQuery, B2C, RegisterC2BURL and DynamicQR succeed whenever
\* errorCode is empty, whatever the ResponseCode; DynamicQR called with
\* decodeImage then goes on to decode and write the image, and succeeds
\* or fails on that alone.  The operations known from their tests fail
\* on a ResponseCode that is present and not "0", as specified.
C6_ResponseCode ==
    \A p \in Procs :
        (Decoded(p) /\ call[p].op \in Ops) =>
            IF call[p].op = "GetTxnStatus"
            THEN IF EnvelopeOf(p).ResponseCode # "0" THEN Failed(p)
                 ELSE (EnvelopeOf(p).ErrorCode = "" => Succeeded(p))
            ELSE IF call[p].op \in LateOps
            THEN IF EnvelopeOf(p).ResponseCode \notin {"", "0"} THEN Failed(p)
                 ELSE (EnvelopeOf(p).ErrorCode = "" => Succeeded(p))
            ELSE (EnvelopeOf(p).ErrorCode = "" =>
                    \/ Succeeded(p)
                    \/ ImageFailed(p) /\ (PngDecodeErr(EnvelopeOf(p).QRCode) = Nil
                                            => call[p].ioErr # ""))

\* STKPush has returned the envelope and a nil error for a 200 response
\* with an empty errorCode and ResponseCode "1"
C6_Ignored ==
    \E p \in Procs :
        /\ Decoded(p) /\ call[p].op = "STKPush"
        /\ call[p].got[1].status = StatusOK
        /\ EnvelopeOf(p).ErrorCode = "" /\ EnvelopeOf(p).ResponseCode = "1"
        /\ Succeeded(p)

(***************************************************************************)
(* C7.  The scheme of the URLs of a payload.                               *)
(***************************************************************************)
\* the payload of the call of caller p has a URL whose scheme is http
HasHttpURL(p) == \E i \in DOMAIN call[p].args.urls : call[p].args.urls[i] = "http"

\* the call of caller p has returned an error without any request sent
RejectedLocally(p) ==
    /\ pc[p] = "done"
    /\ Failed(p)
    /\ ~Returned(p)
    /\ call[p].sentTok = 0 /\ call[p].sentOp = 0

\* the secrets and the ResponseType of the call of caller p are valid
OtherInputsValid(p) ==
    /\ call[p].op \in ChargeOps => call[p].args.passkey # ""
    /\ call[p].op \in PayoutOps \cup LateOps => call[p].args.initiatorPwd # ""
    /\ call[p].op = "RegisterC2BURL" =>
            call[p].args.ResponseType \in {ResponseTypeComplete, ResponseTypeCanceled}

\* the operations whose payload has URLs
URLOps == {"STKPush", "B2C", "RegisterC2BURL", "GetTxnStatus"} \cup LateOps

\* C7 as stated: every operation with a URL in its payload, called with an
\* http URL, fails with a validation error before any HTTP request is made.
C7_AsStated ==
    \A p \in Procs :
        (call[p].op \in URLOps /\ HasHttpURL(p)) => RejectedLocally(p)

\* C7, what the code does: STKPush, B2C, RegisterC2BURL and GetTxnStatus,
\* the operations whose code is in the repository, do not look at the
\* scheme: called with an http URL and otherwise valid input they go on to
\* GenerateAccessToken and are never rejected locally.  The operations
\* known from their tests reject an http URL before any HTTP request is
\* made, as specified.
C7_Scheme ==
    \A p \in Procs :
        (call[p].op \in URLOps /\ HasHttpURL(p)) =>
            IF call[p].op \in LateOps
            THEN RejectedLocally(p)
            ELSE OtherInputsValid(p) =>
                    /\ ~RejectedLocally(p)
                    /\ pc[p] = "done" => Returned(p)

\* GetTxnStatus called with a valid password and an http URL has sent a
\* token request and the request of the operation
C7_Dispatched ==
    \E p \in Procs :
        /\ call[p].op = "GetTxnStatus" /\ HasHttpURL(p) /\ OtherInputsValid(p)
        /\ call[p].sentTok = 1 /\ call[p].sentOp = 1

(***************************************************************************)
(* C8.  Missing secrets.                                                   *)
(***************************************************************************)
\* the error the call c must fail with for its missing secret, nil if the
\* secret is there
SecretError(c) ==
    IF c.op \in ChargeOps /\ c.args.passkey = "" THEN ErrInvalidPasskey
    ELSE IF c.op \in PayoutOps \cup LateOps /\ c.args.initiatorPwd = ""
    THEN ErrInvalidInitiatorPassword
    ELSE Nil

C8_Rejected ==
    \A p \in Procs :
        SecretError(call[p]) # Nil =>
            /\ pc[p] = "done"
            /\ call[p].out = <<Result(Nil, SecretError(call[p]))>>
            /\ ~Returned(p)
            /\ call[p].sentTok = 0 /\ call[p].sentOp = 0

C8_NoEffect ==
    \A p \in Procs :
        (call'[p].id # call[p].id /\ SecretError(call'[p]) # Nil) =>
            /\ tokenReqs' = tokenReqs
            /\ opReqs' = opReqs
            /\ cache' = cache
            /\ mu' = mu

\* C8: STKPush and STKQuery with an empty passkey return ErrInvalidPasskey,
\* B2C, transaction status, account balance and business pay bill with an
\* empty initiator password return ErrInvalidInitiatorPassword; the result
\* is nil, no HTTP request is made and the token cache is left as it was.
C8_FailFast == []C8_Rejected /\ [][C8_NoEffect]_vars

\* STKPush with an empty passkey has returned ErrInvalidPasskey on an
\* instance whose cache holds a token from an earlier call, with the one
\* token request of that earlier call the only request ever sent
C8_Witness ==
    \E p \in Procs :
        /\ pc[p] = "done" /\ call[p].op = "STKPush" /\ call[p].args.passkey = ""
        /\ Outcome(p) = Result(Nil, ErrInvalidPasskey)
        /\ KeyOf(p) \in DOMAIN CacheOf(p)
        /\ tokenReqs[ClientOf(p)] = 1 /\ opReqs[ClientOf(p)] = 0

(***************************************************************************)
(* C9, C10.  The token of an operation.                                    *)
(***************************************************************************)
\* C9: when the token acquisition of an operation fails, no request of the
\* operation is sent; every request of an operation carries the
\* Authorization header "Bearer " plus the token GenerateAccessToken
\* returned without error in that same call.
C9_Authenticated ==
    \A p \in Procs :
        call[p].op \in Ops =>
            /\ (Returned(p) /\ TokenResult(p).err # Nil) =>
                    call[p].sentOp = 0 /\ call[p].bearer = << >> /\ pc[p] # "op_inflight"
            /\ (call[p].sentOp > 0 \/ pc[p] = "op_inflight") =>
                    /\ call[p].sentOp = 1
                    /\ Returned(p)
                    /\ TokenResult(p).err = Nil
                    /\ call[p].bearer = <<"Bearer ", TokenResult(p).res>>
            /\ call[p].got # << >> => call[p].sentOp = 1

\* an operation has returned after its token acquisition failed, and its
\* instance has sent the token request and nothing else
C9_Witness ==
    \E p \in Procs :
        /\ pc[p] = "done" /\ call[p].op \in Ops
        /\ Returned(p) /\ TokenResult(p).err # Nil
        /\ call[p].sentTok = 1 /\ call[p].sentOp = 0
        /\ tokenReqs[ClientOf(p)] = 1 /\ opReqs[ClientOf(p)] = 0

\* C10 as stated: when the token acquisition of an operation fails, the
\* operation returns exactly the error GenerateAccessToken returned, not
\* wrapped, joined or replaced, and a nil result.
C10_AsStated ==
    \A p \in Procs :
        (pc[p] = "done" /\ call[p].op \in Ops /\ Returned(p) /\ TokenResult(p).err # Nil) =>
            Outcome(p) = Result(Nil, TokenResult(p).err)

(***************************************************************************)
(* C11, C12.  The callback decoders.                                       *)
(***************************************************************************)
\* the shapes the claim names: raw JSON string or raw bytes, readable
\* byte stream, pre-built typed value
ParityShapes == {"string", "bytes", "request", "reader", "typed"}

\* C11 as stated: decoding one notification supplied as a raw JSON string
\* or raw bytes, as a readable byte stream, and as a typed value yields
\* the same decoded callback in every shape, the callback of the
\* notification, in particular with the same CheckoutRequestID.
C11_AsStated ==
    notification.value # << >> =>
        \A s \in DOMAIN decoded \cap ParityShapes :
            decoded[s] = Result(notification.value, Nil)

\* the input of shape s does not decode: the text of the notification is
\* not valid JSON for the struct, in whatever shape it is given, or the
\* body of the request cannot be read, or the value cannot be marshalled
DoesNotDecode(s) ==
    notification.value = << >> \/ s \in {"brokenRequest", "unsupported"}

C12_EveryInput ==
    \A s \in DOMAIN decoded :
        /\ (decoded[s].res = Nil) <=> (decoded[s].err # Nil)
        /\ DoesNotDecode(s) => decoded[s].res = Nil /\ decoded[s].err # Nil

C12_NoClientEffect ==
    decoded' # decoded =>
        UNCHANGED <<app, cache, mu, pc, call, tokenReqs, opReqs>>

\* C12 as stated: the decoders return a nil callback and an error for
\* every input that does not decode, never a callback together with an
\* error, and they leave the client as it was: no request sent, cache and
\* mutex untouched.
C12_AsStated == []C12_EveryInput /\ [][C12_NoClientEffect]_vars

\* C12, what the code does: the decoders return a nil callback and an
\* error for a text that is not valid JSON for the struct given as a
\* string or as a request body, for a body that cannot be read and for a
\* value that cannot be marshalled; never a callback together with an
\* error nor a partly filled callback; a text given as an io.Reader that
\* is not a request is not read, and the decoder returns the empty
\* callback and a nil error whatever the text is.  The client is left as
\* it was.
C12_Outcome ==
    \A s \in DOMAIN decoded :
        /\ (decoded[s].res = Nil) <=> (decoded[s].err # Nil)
        /\ decoded[s].res # Nil => Len(decoded[s].res) = 1
        /\ (s \in {"brokenRequest", "unsupported"}
                \/ (notification.value = << >> /\ s \in {"string", "request"}))
             => decoded[s].res = Nil /\ decoded[s].err # Nil
        /\ (notification.value # << >> /\ s \in {"string", "request", "typed"})
             => decoded[s] = Result(notification.value, Nil)
        /\ s = "reader" => decoded[s] = Result(<<ZeroCallback(notification.type)>>, Nil)

C12_HardError == []C12_Outcome /\ [][C12_NoClientEffect]_vars

\* an object cut short has been given as a string and as an io.Reader:
\* the first call returned nil and an error, the second the empty callback
\* and a nil error
C12_Lenient ==
    /\ notification.value = << >>
    /\ Len(notification.text) = 2
    /\ {"string", "reader"} \subseteq DOMAIN decoded
    /\ decoded["string"].res = Nil /\ decoded["string"].err # Nil
    /\ decoded["reader"] = Result(<<ZeroCallback(notification.type)>>, Nil)

(***************************************************************************)
(* C14.  No automatic retry.                                               *)
(***************************************************************************)
\* the error GenerateAccessToken and makeHttpRequestWithToken make of a
\* transport failure
TokenTransportFailure(p) ==
    Returned(p) /\ Carries(TokenResult(p).err, "mpesa: error making authorization http request - %v")
OpTransportFailure(p) == call[p].got # << >> /\ call[p].got[1].doErr

C14_AtMostOnce ==
    \A p \in Procs :
        /\ call[p].sentTok <= 1 /\ call[p].sentOp <= 1
        /\ call[p].op = GAT => call[p].sentOp = 0
        /\ call[p].sentOp = 1 => Returned(p) /\ TokenResult(p).err = Nil
        /\ TokenTransportFailure(p) =>
                /\ call[p].sentTok = 1 /\ call[p].sentOp = 0
                /\ pc[p] \in {"gat_ret", "done"}
                /\ pc[p] = "done" => Outcome(p).err # Nil
        /\ OpTransportFailure(p) =>
                pc[p] = "done" /\ Failed(p) /\ call[p].sentOp = 1

\* the step in which a response or a transport failure comes back sends nothing
C14_NoResend ==
    \A p \in Procs :
        (RefreshStep(p) \/ (pc[p] = "op_inflight" /\ pc'[p] # "op_inflight")) =>
            /\ tokenReqs' = tokenReqs /\ opReqs' = opReqs
            /\ call'[p].sentTok = call[p].sentTok /\ call'[p].sentOp = call[p].sentOp

\* C14: one GenerateAccessToken call sends at most one token request, one
\* operation call at most one token request and then at most one operation
\* request; a transport failure of either is returned to the caller at
\* once, without a second attempt.
C14_NoRetry == []C14_AtMostOnce /\ [][C14_NoResend]_vars

\* an operation has returned the transport failure of its one operation
\* request, sent after its one token request
C14_Witness ==
    \E p \in Procs :
        /\ pc[p] = "done" /\ call[p].op \in Ops
        /\ OpTransportFailure(p) /\ Failed(p)
        /\ call[p].sentTok = 1 /\ call[p].sentOp = 1
        /\ tokenReqs[ClientOf(p)] = 1 /\ opReqs[ClientOf(p)] = 1

(***************************************************************************)
(* C16, C17.  What a refresh does to the cache.                            *)
(***************************************************************************)

C16_Refresh ==
    \A p \in Procs :
        LET c == ClientOf(p)
            key == KeyOf(p)
        IN
        /\ (RefreshStep(p) /\ call'[p].gat[1].err = Nil) =>
                /\ DOMAIN cache'[c] = DOMAIN cache[c] \cup {key}
                /\ cache'[c][key] =
                        [AccessToken |-> DecodedInto(AuthorizationResponse(EmptyToken, ""), call'[p].tokGot[1].body).AccessToken,
                         ExpiresIn   |-> DecodedInto(AuthorizationResponse(EmptyToken, ""), call'[p].tokGot[1].body).ExpiresIn,
                         setAt       |-> now]
                /\ \A k \in DOMAIN cache[c] \ {key} : cache'[c][k] = cache[c][k]
                /\ \A d \in Clients \ {c} : cache'[d] = cache[d]
        /\ (LookupStep(p) /\ call'[p].lookup = "fresh") => cache' = cache

C16_OnlyRefresh ==
    cache' # cache =>
        \E p \in Procs : RefreshStep(p) /\ call'[p].gat[1].err = Nil

\* C16: a successful refresh mutates the cache exactly once: the entry of
\* the client's consumer key is replaced wholesale by the new token with
\* issued-at = now, nothing else changes and no other step of the call
\* writes the cache; a cache hit mutates nothing.
C16_OneMutation == [][C16_Refresh /\ C16_OnlyRefresh]_vars

\* a stale entry has been replaced by a refresh at minute 55: its issued-at
\* is the time of the refresh and its token the one of the response
C16_Witness ==
    \E p \in Procs :
        /\ call[p].lookup = "stale" /\ Returned(p) /\ TokenResult(p).err = Nil
        /\ now >= accessTokenTTL
        /\ CacheOf(p)[KeyOf(p)] =
                [AccessToken |-> DecodedInto(AuthorizationResponse(EmptyToken, ""), TokenResponseOf(p).body).AccessToken,
                 ExpiresIn   |-> "3599",
                 setAt       |-> now]
        /\ TokenResult(p).res # EmptyToken

C17_Error ==
    \A p \in Procs :
        (call[p].tokGot # << >> /\ RefreshFailed(TokenResponseOf(p))) =>
            /\ Returned(p)
            /\ TokenResult(p).res = EmptyToken
            /\ TokenResult(p).err # Nil
            /\ (~TokenResponseOf(p).doErr /\ TokenResponseOf(p).status # StatusOK) =>
                    Carries(TokenResult(p).err, StatusText(TokenResponseOf(p).status))

C17_CacheKept ==
    \A p \in Procs :
        (RefreshStep(p) /\ RefreshFailed(call'[p].tokGot[1])) => cache' = cache

\* C17: when the token request fails in transport, is answered with a
\* status other than 200 or with a body that does not decode,
\* GenerateAccessToken returns an empty token and an error (for a status
\* other than 200, one that carries the status text) and the cache is as
\* it was before the call: no entry added, a stale entry neither removed
\* nor refreshed.
C17_FailedRefresh == []C17_Error /\ [][C17_CacheKept]_vars

\* the refresh of a stale entry was answered with status 400 and a body
\* that holds a token: the call returned the error and the entry of
\* minute 0 is still there
C17_Witness ==
    \E p \in Procs :
        /\ call[p].lookup = "stale" /\ call[p].tokGot # << >>
        /\ TokenResponseOf(p).status = StatusBadRequest
        /\ DecodeErr(TokenResponseOf(p).body) = Nil
        /\ TokenResult(p).err # Nil
        /\ KeyOf(p) \in DOMAIN CacheOf(p)
        /\ CacheOf(p)[KeyOf(p)].setAt = 0
        /\ now >= accessTokenTTL

(***************************************************************************)
(* C18.  No partial results.                                               *)
(***************************************************************************)
\* the call of caller p has ended: it has returned or it has panicked
Ended(p) == pc[p] \in {"done", "panicked"}

\* C18 as stated: every call of an operation ends either with the decoded
\* envelope and a nil error, or with a nil result and an error; never with
\* both, never with neither.
C18_AsStated ==
    \A p \in Procs :
        (Ended(p) /\ call[p].op \in Ops) =>
            /\ Len(call[p].out) = 1
            /\ \/ Outcome(p).res = Nil /\ Outcome(p).err # Nil
               \/ /\ Outcome(p).err = Nil
                  /\ Decoded(p)
                  /\ Outcome(p).res = <<ReturnedEnvelope(p)>>

\* C18, what the code does: every call of an operation that returns,
\* returns either the decoded envelope and a nil error or a nil result and
\* an error; a call that ends without returning is DynamicQR on a response
\* whose body is null, which panics.
C18_NoPartialResult ==
    \A p \in Procs :
        /\ (pc[p] = "done" /\ call[p].op \in Ops) =>
            /\ Len(call[p].out) = 1
            /\ \/ Outcome(p).res = Nil /\ Outcome(p).err # Nil
               \/ /\ Outcome(p).err = Nil
                  /\ Decoded(p)
                  /\ Outcome(p).res = <<ReturnedEnvelope(p)>>
        /\ pc[p] = "panicked" =>
            /\ call[p].op = "DynamicQR"
            /\ call[p].got[1].status = StatusOK /\ call[p].got[1].body = NullBody
            /\ call[p].out = << >>

\* DynamicQR has panicked on a 200 response with the body null after the
\* operation request was sent: it has returned neither result nor error
C18_Panicked ==
    \E p \in Procs :
        /\ pc[p] = "panicked" /\ call[p].op = "DynamicQR"
        /\ call[p].sentOp = 1
        /\ call[p].out = << >>

(***************************************************************************)
(* C19.  The environment of a client.                                      *)
(***************************************************************************)
\* the base address and the certificate of an environment
BaseOf(env) == IF env = Production THEN productionBaseURL ELSE sandboxBaseURL
CertOf(env) == IF env = Production THEN "certs/production.cer" ELSE "certs/sandbox.cer"

C19_Selector ==
    \A p \in Procs :
        LET env == app[ClientOf(p)].environment IN
        /\ call[p].tokURL # << >> => call[p].tokURL[1] = BaseOf(env)
        /\ call[p].opURL # << >> => call[p].opURL[1] = BaseOf(env)
        /\ call[p].sentTok > 0 => call[p].tokURL # << >>
        /\ call[p].sentOp > 0 => call[p].opURL # << >>
        /\ call[p].cred # << >> => DecodeString(call[p].cred)[1] = CertOf(env)
        /\ (call[p].sentOp > 0 /\ call[p].op \in CredentialOps) => call[p].cred # << >>

\* C19: the environment of a client never changes, and it alone selects
\* the base address and the certificate: every token and operation request
\* goes to the production base address if the environment is Production
\* and to the sandbox base address otherwise, and the credential is
\* encrypted with the production certificate if and only if the
\* environment is Production.
C19_Environment ==
    /\ []C19_Selector
    /\ [][\A c \in Clients : app'[c] = app[c]]_vars

\* the production client has a B2C request in flight, sent after a token
\* request to the production base address, to the production base
\* address and with a credential of the production certificate
C19_Witness ==
    \E p \in Procs :
        /\ app[ClientOf(p)].environment = Production
        /\ call[p].op = "B2C" /\ call[p].sentOp = 1 /\ call[p].sentTok = 1
        /\ call[p].tokURL = <<productionBaseURL, "/oauth/v1/generate?grant_type=client_credentials">>
        /\ call[p].opURL = <<productionBaseURL, "/mpesa/b2c/v1/paymentrequest">>
        /\ DecodeString(call[p].cred)[1] = "certs/production.cer"

(***************************************************************************)
(* C20.  Security credentials.                                             *)
(***************************************************************************)
\* the i-th credential is a non-empty valid base64 string whose bytes
\* differ from those of every other credential generated for the same
\* password, on the same client or on the client of the other environment
GoodCredential(i) ==
    /\ creds[i].out.err = Nil
    /\ creds[i].out.res # << >>
    /\ ValidBase64(creds[i].out.res)
    /\ DecodeString(creds[i].out.res) # << >>
    /\ \A j \in DOMAIN creds \ {i} :
            (creds[j].password = creds[i].password /\ creds[j].out.err = Nil) =>
                /\ DecodeString(creds[j].out.res) # DecodeString(creds[i].out.res)
                /\ creds[j].client # creds[i].client =>
                        DecodeString(creds[j].out.res)[1] # DecodeString(creds[i].out.res)[1]

\* C20 as stated: encrypting a non-empty password on the sandbox client
\* returns a non-empty valid base64 string that differs in raw bytes from
\* the result of every other call with the same password and from the
\* output of the production client.
C20_AsStated ==
    \A i \in DOMAIN creds :
        (app[creds[i].client].environment = Sandbox /\ creds[i].password # "") =>
            GoodCredential(i)

\* C20 amended: the same for a non-empty password of at most k - 11 bytes,
\* k the size of the modulus of the certificate's key; for a longer
\* password encryption fails and an empty string and an error are returned.
C20_Credentials ==
    \A i \in DOMAIN creds :
        (app[creds[i].client].environment = Sandbox /\ creds[i].password # "") =>
            IF Len(creds[i].password) <= KeyBytes - PKCS1v15Overhead
            THEN GoodCredential(i)
            ELSE creds[i].out.res = << >> /\ creds[i].out.err # Nil

\* the same password was encrypted twice on the sandbox client and once
\* on the production client: three credentials, no two alike
C20_Witness ==
    /\ Len(creds) = 3
    /\ \A i \in 1..3 : creds[i].password = "random-string" /\ creds[i].out.err = Nil
    /\ creds[1].client = "app1" /\ creds[2].client = "app1" /\ creds[3].client = "app2"
    /\ creds[1].out.res # creds[2].out.res
    /\ creds[1].out.res # creds[3].out.res

(***************************************************************************)
(* C13.  Cancellation.                                                     *)
(***************************************************************************)
\* the call of caller p has returned an error that carries the cancellation
ReturnedCancellation(p) ==
    /\ pc[p] = "done"
    /\ Outcome(p).res = << >>
    /\ Carries(Outcome(p).err, ContextCanceled)

C13_Returned ==
    \A p \in Procs :
        (pc[p] = "done" /\ CtxDone(p)) => ReturnedCancellation(p)

\* C13 as stated: a call whose context is cancelled at some point of the
\* call returns a cancellation error, and no call with a cancelled context
\* hangs, whether the server answers or not.
C13_AsStated ==
    /\ []C13_Returned
    /\ \A p \in Procs : CtxDone(p) ~> (pc[p] = "done")

\* the response r carries the error of the context, from Do or from the body
Aborted(r) == r = AbortedDo \/ (~r.doErr /\ r.status = StatusOK /\ r.body = AbortedBody)

C13_Aborted ==
    \A p \in Procs :
        (pc[p] = "done" /\ CtxDone(p)) =>
            /\ (call[p].tokGot # << >> /\ Aborted(call[p].tokGot[1])) =>
                    /\ ReturnedCancellation(p)
                    /\ call[p].sentOp = 0
            /\ (call[p].got # << >> /\ Aborted(call[p].got[1])) => ReturnedCancellation(p)
            /\ (call[p].op = GAT /\ call[p].lookup = "fresh") =>
                    /\ Outcome(p).err = Nil
                    /\ Outcome(p).res = CacheOf(p)[KeyOf(p)].AccessToken
                    /\ call[p].sentTok = 0

\* C13, what the code does: the context is handed to the two requests and
\* looked at nowhere else.  When client.Do, or the read of the body,
\* returns the error of the context, the call returns an error carrying it
\* in its text; when the transport answers in spite of the cancellation
\* the call goes on as if it had not been cancelled.  A
\* GenerateAccessToken call that finds a fresh token in the cache returns
\* it without error although its context is cancelled; a caller waiting
\* for the token lock is not woken by the cancellation, and goes on only
\* when the lock is released.
C13_Cancellation ==
    /\ []C13_Aborted
    /\ \A p \in Procs : (CtxDone(p) /\ pc[p] # "gat_lock") ~> (pc[p] = "done")

\* a call was cancelled with its token request in flight and has returned
\* the cancellation
C13_Witness ==
    \E p \in Procs :
        /\ call[p].cancelAt = "gat_inflight"
        /\ call[p].tokGot # << >> /\ call[p].tokGot[1].doErr
        /\ ReturnedCancellation(p)

(***************************************************************************)
(* C15.  The token lock is released on every path.                         *)
(***************************************************************************)
C15_Released ==
    /\ \A c \in Clients :
            mu[c] # NoProc =>
                ClientOf(mu[c]) = c /\ pc[mu[c]] \in {"gat_lookup", "gat_inflight"}
    /\ \A p \in Procs : Returned(p) => mu[ClientOf(p)] # p

\* C15: the token lock is released on every exit path of
\* GenerateAccessToken (cache hit, request-construction error, transport
\* error, status other than 200, decode error, success): a caller that has returned from it does not
\* hold the lock, and, every HTTP call returning, every caller waiting for
\* the lock acquires it and its call returns.
C15_LockReleased ==
    /\ []C15_Released
    /\ \A p \in Procs :
            /\ (pc[p] = "gat_lock") ~> (mu[ClientOf(p)] = p)
            /\ (pc[p] = "gat_lock") ~> (pc[p] = "done")

\* a caller that entered while another was inside now holds the lock,
\* after the other has returned with an error
C15_Witness ==
    \E p, q \in Procs :
        /\ p # q /\ ClientOf(p) = ClientOf(q)
        /\ call[p].id \in call[q].with
        /\ Returned(p) /\ TokenResult(p).err = NewRequestError(NilContext)
        /\ mu[ClientOf(q)] = q /\ pc[q] = "gat_lookup"

(***************************************************************************)
(* C21.  Timestamp and password of a charge request.                       *)
(***************************************************************************)
\* caller p hands its operation request to client.Do in this step
SendStep(p) == pc[p] = "gat_ret" /\ pc'[p] = "op_inflight"

FreshAtSend(p) ==
    (SendStep(p) /\ call[p].op \in ChargeOps) =>
        /\ call'[p].body # << >>
        /\ call'[p].body[1].Timestamp = Format(now)
        /\ call'[p].body[1].Password =
                EncodeToString(<<ToString(BusinessShortCode), call[p].args.passkey, Format(now)>>)

\* C21 as stated: the Timestamp of an STKPush or STKQuery request is the
\* time at which the request is sent, the Password is the base64 text of
\* short code, passkey and that timestamp, and no token acquisition, lock
\* wait or network step lies between computing them and sending.
C21_AsStated == [][\A p \in Procs : FreshAtSend(p)]_vars

\* C21, what the code does: the two fields are computed on every call when
\* the call starts, before the token is acquired, from the clock at that
\* moment, and the Password is built from the same timestamp.
C21_ComputedAtStart ==
    \A p \in Procs :
        (call[p].op \in ChargeOps /\ pc[p] \in InGAT \cup {"gat_ret", "op_inflight"}) =>
            /\ call[p].body # << >>
            /\ call[p].body[1].Timestamp = Format(call[p].enteredAt)
            /\ DecodeString(call[p].body[1].Password) =
                    <<ToString(BusinessShortCode), call[p].args.passkey, call[p].body[1].Timestamp>>

\* a charge request is in flight whose timestamp is older than the time of sending
C21_Witness ==
    \E p \in Procs :
        /\ pc[p] = "op_inflight" /\ call[p].op \in ChargeOps
        /\ call[p].enteredAt < now
        /\ call[p].body[1].Timestamp # Format(now)

(***************************************************************************)
(* C22.  The requests of an operation on a cold cache.                     *)
(***************************************************************************)
\* the operation of caller p started on a cache without a fresh token
ColdOperation(p) == call[p].op \in Ops /\ call[p].coldStart

C22_TokenThenOperation(p) ==
    (SendStep(p) /\ ColdOperation(p)) =>
        /\ call[p].sentTok = 1 /\ call[p].sentOp = 0 /\ call'[p].sentOp = 1
        /\ call'[p].contentType = "application/json"
        /\ KeyOf(p) \in DOMAIN CacheOf(p)
        /\ call'[p].bearer = <<"Bearer ", CacheOf(p)[KeyOf(p)].AccessToken>>

\* C22 as stated: an operation that starts on a cold cache and passes
\* validation sends the token request first and the operation request
\* second, and the operation request carries Content-Type application/json
\* and Authorization "Bearer " plus the token in the cache of the client at
\* the moment the operation request is sent.
C22_AsStated == [][\A p \in Procs : C22_TokenThenOperation(p)]_vars

C22_Requests(p) ==
    (SendStep(p) /\ ColdOperation(p)) =>
        /\ tokenReqs[ClientOf(p)] >= 1
        /\ call[p].sentOp = 0 /\ call'[p].sentOp = 1
        /\ call[p].sentTok = (IF call[p].lookup = "fresh" THEN 0 ELSE 1)
        /\ call[p].lookup = "fresh" =>
                \E q \in Procs \ {p} : ClientOf(q) = ClientOf(p)
        /\ call'[p].contentType = "application/json"
        /\ TokenResult(p).err = Nil
        /\ call'[p].bearer = <<"Bearer ", TokenResult(p).res>>
        /\ KeyOf(p) \in DOMAIN CacheOf(p)
        /\ \/ CacheOf(p)[KeyOf(p)].AccessToken = TokenResult(p).res
           \/ /\ CacheOf(p)[KeyOf(p)].setAt >= call[p].enteredAt + accessTokenTTL
              /\ tokenReqs[ClientOf(p)] >= 2

\* C22 amended: before the operation request of an operation that starts
\* on a cold cache is sent, a token request of the client has been sent:
\* one by the call itself, or none by it when another caller of the same
\* client refreshed the cache while the call waited for the token lock.
\* The operation request carries Content-Type application/json and
\* Authorization "Bearer " plus the token GenerateAccessToken returned to
\* the call; that is the token in the cache when the request is sent,
\* unless the entry went stale and another caller replaced it in between.
C22_Ordering == [][\A p \in Procs : C22_Requests(p)]_vars

\* the only call of a client, started on an empty cache, has its
\* operation request in flight: second request of the client, with the
\* two headers, the token being the one in the cache
C22_Witness ==
    \E p \in Procs :
        /\ pc[p] = "op_inflight" /\ ColdOperation(p)
        /\ call[p].sentTok = 1 /\ call[p].sentOp = 1
        /\ tokenReqs[ClientOf(p)] = 1 /\ opReqs[ClientOf(p)] = 1
        /\ call[p].contentType = "application/json"
        /\ call[p].bearer = <<"Bearer ", CacheOf(p)[KeyOf(p)].AccessToken>>

(***************************************************************************)
(* C23.  The error of a response that does not decode.                     *)
(***************************************************************************)
\* the operation request of caller p was answered and the body did not decode
Undecodable(p) ==
    /\ pc[p] = "done" /\ call[p].op \in Ops
    /\ call[p].got # << >>
    /\ ~call[p].got[1].doErr
    /\ DecodeErr(call[p].got[1].body) # Nil

\* the error names the status of the response, as a number or as its text
ReportsStatus(err, status) ==
    Carries(err, ToString(status)) \/ Carries(err, StatusText(status))

\* C23 as stated: when the body of the response of an operation does not
\* decode into the envelope, the call returns a nil result and a decode
\* error that reports the transport status code of the response.
C23_AsStated ==
    \A p \in Procs :
        Undecodable(p) =>
            /\ Failed(p)
            /\ ReportsStatus(Outcome(p).err, call[p].got[1].status)

\* C23, what the code does: the call returns a nil result and an error
\* made of the text of the decoding step of the operation and the error
\* of the decoder, the same whatever the status of the response; it
\* differs from the error of a request that got no response.
C23_DecodeError ==
    \A p \in Procs :
        Undecodable(p) =>
            /\ Failed(p)
            /\ Outcome(p).err = OnDecodeError(call[p].op, DecodeErr(call[p].got[1].body))
            /\ \E e \in {"EOF", "unexpected EOF"} : Carries(Outcome(p).err, e)
            /\ Outcome(p).err # OpResult(call[p].op, Response(TRUE, 0, BadBody)).err

\* a response with status 400 and an undecodable body has been turned
\* into an error without the status
C23_Witness ==
    \E p \in Procs :
        /\ Undecodable(p) /\ call[p].got[1].status = StatusBadRequest
        /\ Failed(p)
        /\ ~ReportsStatus(Outcome(p).err, StatusBadRequest)

(***************************************************************************)
(* C24.  The ResponseType of RegisterC2BURL.                               *)
(***************************************************************************)
ValidResponseType(p) == call[p].args.ResponseType \in {"Completed", "Canceled"}

C24_Rejected ==
    \A p \in Procs :
        (call[p].op = "RegisterC2BURL" /\ pc[p] # "idle") =>
            IF ValidResponseType(p)
            THEN /\ pc[p] = "done" => Returned(p)
                 /\ (Returned(p) /\ TokenResult(p).err = Nil /\ pc[p] # "gat_ret") =>
                        call[p].sentOp = 1
            ELSE /\ pc[p] = "done"
                 /\ Outcome(p) =
                        Result(Nil, <<"mpesa: the provided ResponseType [%s] is not valid",
                                      call[p].args.ResponseType>>)
                 /\ call[p].sentTok = 0 /\ call[p].sentOp = 0
                 /\ ~Returned(p)

\* the step in which caller p calls RegisterC2BURL
C24_CallStep(p) ==
    /\ pc[p] \in {"idle", "done"}
    /\ call'[p].id # call[p].id
    /\ call'[p].op = "RegisterC2BURL"

C24_BeforeIO ==
    \A p \in Procs :
        C24_CallStep(p) =>
            IF call'[p].args.ResponseType \in {"Completed", "Canceled"}
            THEN pc'[p] = "gat_lock"
            ELSE /\ pc'[p] = "done"
                 /\ UNCHANGED <<cache, mu, tokenReqs, opReqs>>

\* C24: RegisterC2BURL with a ResponseType other than "Completed" and
\* "Canceled" returns nil and the error "mpesa: the provided ResponseType
\* [<value>] is not valid" without sending any request: no token request,
\* no operation request, cache and lock untouched; with one of the two
\* values the call goes on to acquire the token and send the request.
C24_ResponseType == []C24_Rejected /\ [][C24_BeforeIO]_vars

\* RegisterC2BURL has returned the error for the ResponseType "Foo" on a
\* client that has sent nothing and holds no token
C24_Witness ==
    \E p \in Procs :
        /\ pc[p] = "done" /\ call[p].op = "RegisterC2BURL"
        /\ call[p].args.ResponseType = "Foo"
        /\ Outcome(p) = Result(Nil, <<"mpesa: the provided ResponseType [%s] is not valid", "Foo">>)
        /\ tokenReqs[ClientOf(p)] = 0 /\ opReqs[ClientOf(p)] = 0
        /\ CacheOf(p) = EmptyCache

(***************************************************************************)
(* C25.  The client keeps nothing of a call but the token.                 *)
(***************************************************************************)
\* the fields of Mpesa other than the HTTP client, the mutex and the cache
ClientFields ==
    {"consumerKey", "consumerSecret", "environment", "authURL", "b2cURL", "c2bURL",
     "dynamicQRURL", "stkPushQueryURL", "stkPushURL", "txnStatusURL"}

\* caller p starts a call in this step
CallStep(p) == pc[p] \in {"idle", "done"} /\ call'[p].id # call[p].id

C25_Frame ==
    /\ app' = app
    /\ \A c \in Clients :
            /\ DOMAIN app[c] = ClientFields
            /\ cache'[c] # cache[c] =>
                    /\ \E p \in Procs : ClientOf(p) = c /\ RefreshStep(p)
                    /\ DOMAIN cache'[c] = {app[c].consumerKey}
            /\ mu'[c] # mu[c] =>
                    \E p \in Procs : ClientOf(p) = c /\ pc[p] \in InGAT /\ pc'[p] # pc[p]
    /\ decoded' # decoded => UNCHANGED <<app, cache, mu, tokenReqs, opReqs, pc, call>>

C25_Recomputed ==
    \A p \in Procs :
        (CallStep(p) /\ pc'[p] # "done") =>
            /\ call'[p].body = Payload(call'[p].op, call'[p].args, now)
            /\ call'[p].op \in CredentialOps =>
                    /\ call'[p].cred # << >>
                    /\ call'[p].cred # call[p].cred
                    /\ \A n \in 1..calls : DecodeString(call'[p].cred)[2] # Draw(n)

C25_Idle ==
    \A c \in Clients :
        (\A p \in Procs : ClientOf(p) = c => pc[p] \in {"idle", "done"}) => mu[c] = NoProc

\* C25: no operation and no callback decoder changes a field of the client
\* other than the entry of the token cache (written only by a successful
\* refresh, under the client's own consumer key); the mutex is taken and
\* released inside GenerateAccessToken and free when no call is under way;
\* the security credential, the timestamp and the password are not fields
\* of the client and are computed anew by every call.
C25_Stateless == [][C25_Frame /\ C25_Recomputed]_vars /\ []C25_Idle

\* the second call of the caller, a GetTxnStatus, has succeeded after the
\* notification was decoded on the same client: the client has its fields
\* of construction and one cache entry
C25_Witness ==
    \E p \in Procs :
        /\ pc[p] = "done" /\ call[p].op = "GetTxnStatus" /\ call[p].id = 2
        /\ Outcome(p).err = Nil
        /\ call[p].cred # << >>
        /\ "typed" \in DOMAIN decoded
        /\ app[ClientOf(p)] = NewApp("key1", "secret1", Sandbox)
        /\ DOMAIN CacheOf(p) = {"key1"}
        /\ mu[ClientOf(p)] = NoProc

(***************************************************************************)
(* C26.  Entries of the cache are never evicted.                           *)
(***************************************************************************)
C26_OneEntry ==
    \A c \in Clients :
        /\ DOMAIN cache[c] \subseteq {app[c].consumerKey}
        /\ Cardinality(DOMAIN cache[c]) <= 1
        /\ tokenReqs[c] = 0 => DOMAIN cache[c] = {}

C26_Kept ==
    \A c \in Clients :
        /\ DOMAIN cache[c] \subseteq DOMAIN cache'[c]
        /\ cache'[c] # cache[c] =>
                \E p \in Procs :
                    /\ ClientOf(p) = c /\ RefreshStep(p)
                    /\ call[p].lookup \in {"cold", "stale"}
                    /\ call'[p].gat[1].err = Nil
                    /\ cache'[c][app[c].consumerKey].setAt = now

C26_StaleIgnored ==
    \A p \in Procs :
        (LookupStep(p) /\ KeyOf(p) \in DOMAIN CacheOf(p)
                       /\ now >= CacheOf(p)[KeyOf(p)].setAt + accessTokenTTL
                       /\ call[p].args.ctx # NilContext) =>
            /\ call'[p].lookup = "stale"
            /\ pc'[p] = "gat_inflight"
            /\ call'[p].gat = << >>
            /\ cache' = cache

\* C26: the cache of a client is empty at construction and holds at most
\* one entry, under the consumer key of the client; no step removes an
\* entry; a stale entry is not returned by the lookup, stays in place while
\* the token is requested, and is replaced only by a successful refresh.
C26_NeverEvicted == []C26_OneEntry /\ [][C26_Kept /\ C26_StaleIgnored]_vars

\* the refresh of a stale entry has failed: the entry of minute 0 is
\* still the one entry of the cache
C26_Witness ==
    \E p \in Procs :
        /\ call[p].lookup = "stale" /\ Returned(p) /\ TokenResult(p).err # Nil
        /\ DOMAIN CacheOf(p) = {KeyOf(p)}
        /\ CacheOf(p)[KeyOf(p)].setAt = 0
        /\ CacheOf(p)[KeyOf(p)].AccessToken # EmptyToken
        /\ tokenReqs[ClientOf(p)] = 2

(***************************************************************************)
(* C27.  The outcome of an operation and the cached token.                 *)
(***************************************************************************)
\* the operation of caller p fetched its token itself and has ended with a
\* decoded envelope: a success or a business error
EndedAfterFetch(p) ==
    /\ Decoded(p) /\ call[p].op \in Ops
    /\ call[p].coldStart /\ call[p].sentTok = 1 /\ call[p].sentOp = 1

C27_Holds ==
    \A p \in Procs :
        (EndedAfterFetch(p) /\ now < call[p].enteredAt + accessTokenTTL) =>
            /\ KeyOf(p) \in DOMAIN CacheOf(p)
            /\ CacheOf(p)[KeyOf(p)].AccessToken = TokenResult(p).res
            /\ call[p].bearer = <<"Bearer ", CacheOf(p)[KeyOf(p)].AccessToken>>

\* the step in which the response of the operation of caller p comes back
ResponseStep(p) == pc[p] = "op_inflight" /\ pc'[p] = "done"

C27_Untouched ==
    \A p \in Procs :
        ResponseStep(p) => cache' = cache /\ tokenReqs' = tokenReqs /\ opReqs' = opReqs

C27_Served ==
    \A p, q \in Procs :
        (/\ EndedAfterFetch(p) /\ now < call[p].enteredAt + accessTokenTTL
         /\ ClientOf(q) = ClientOf(p) /\ LookupStep(q)) =>
            /\ call'[q].lookup = "fresh"
            /\ call'[q].gat = <<Result(TokenResult(p).res, Nil)>>
            /\ call'[q].sentTok = 0
            /\ tokenReqs' = tokenReqs /\ opReqs' = opReqs

\* C27: the return of an operation, success or business error (the error
\* of an invalid access token included), leaves the cache as it is: after
\* an operation that fetched its token on a cold cache, the cache holds
\* that token, and a GenerateAccessToken within the TTL returns it without
\* sending a request, so that the client has sent two requests in all.
C27_TokenKept == []C27_Holds /\ [][C27_Untouched /\ C27_Served]_vars

\* STKPush on a cold cache ended with the error code 401.002.01, and the
\* GenerateAccessToken that followed returned the token of the cache: the
\* client has sent one token request and one operation request
C27_Witness ==
    \E p, q \in Procs :
        /\ EndedAfterFetch(p) /\ call[p].op = "STKPush" /\ Decoded(p)
        /\ EnvelopeOf(p).ErrorCode = "401.002.01" /\ Failed(p)
        /\ ClientOf(q) = ClientOf(p)
        /\ pc[q] = "done" /\ call[q].op = GAT /\ call[q].id > call[p].id
        /\ call[q].lookup = "fresh"
        /\ Outcome(q) = Result(TokenResult(p).res, Nil)
        /\ TokenResult(p).res # EmptyToken
        /\ tokenReqs[ClientOf(p)] = 1 /\ opReqs[ClientOf(p)] = 1

(***************************************************************************)
(* C28.  The lock and the requests of the operations.                      *)
(***************************************************************************)
\* caller p is past GenerateAccessToken in its call
PastGAT(p) == pc[p] \in {"gat_ret", "op_inflight", "done"}

C28_NotHeld ==
    \A p \in Procs :
        /\ (PastGAT(p) \/ pc[p] = "idle") => mu[ClientOf(p)] # p
        /\ mu[ClientOf(p)] = p => call[p].sentOp = 0 /\ call[p].opURL = << >>

\* a caller can take the lock while operation requests of other callers
\* of the client are in flight, unless another caller is itself inside
\* GenerateAccessToken
C28_NotBlocked ==
    \A q \in Procs :
        (pc[q] = "gat_lock" /\ \A p \in Procs \ {q} :
                                    ClientOf(p) = ClientOf(q) => pc[p] \notin {"gat_lookup", "gat_inflight"})
            => mu[ClientOf(q)] = NoProc

\* C28: the token lock is held only inside GenerateAccessToken: no caller
\* holds it while its operation request is built, in flight or answered,
\* so that two operations of one client can have their requests in flight
\* at the same time, and a caller that asks for the token while the
\* operation request of another caller is never answered still acquires
\* the lock and gets its token or its error.
C28_LockScope ==
    /\ []C28_NotHeld
    /\ []C28_NotBlocked
    /\ \A q \in Procs : (pc[q] = "gat_lock") ~> PastGAT(q)

\* two operations of one client have their requests in flight at the same
\* time, both with the token they found in the cache, and the lock is free
C28_Witness ==
    \E p, q \in Procs :
        /\ p # q /\ ClientOf(p) = ClientOf(q)
        /\ pc[p] = "op_inflight" /\ pc[q] = "op_inflight"
        /\ call[p].lookup = "fresh" /\ call[p].sentTok = 0
        /\ call[q].lookup = "fresh" /\ call[q].sentTok = 0
        /\ call[p].bearer = call[q].bearer
        /\ mu[ClientOf(p)] = NoProc

(***************************************************************************)
(* C29.  The token GenerateAccessToken returns.                            *)
(***************************************************************************)
C29_NonEmpty ==
    /\ \A p \in Procs :
            /\ (Returned(p) /\ TokenResult(p).err = Nil) => TokenResult(p).res # EmptyToken
            /\ call[p].bearer # << >> => call[p].bearer # <<"Bearer ", EmptyToken>>
    /\ \A c \in Clients : \A k \in DOMAIN cache[c] : cache[c][k].AccessToken # EmptyToken

\* the step in which GenerateAccessToken returns to caller p
ReturnStep(p) == pc[p] \in {"gat_lookup", "gat_inflight"} /\ call'[p].gat # << >>

C29_Cached ==
    \A p \in Procs :
        (ReturnStep(p) /\ call'[p].gat[1].err = Nil) =>
            /\ KeyOf(p) \in DOMAIN cache'[ClientOf(p)]
            /\ call'[p].gat[1].res = cache'[ClientOf(p)][KeyOf(p)].AccessToken

\* C29 as stated: when GenerateAccessToken returns without error the
\* token is not empty and is the token stored in the cache under the
\* consumer key of the client at that moment; an empty token is never
\* stored in the cache and never sent as a bearer token.
C29_AsStated == []C29_NonEmpty /\ [][C29_Cached]_vars

\* C29, what the code does: the token returned without error is the one in
\* the cache at the moment of return, empty or not; it is empty when the
\* decoded body of a 200 response had no access_token.
C29_ReturnsCached == [][C29_Cached]_vars

\* a 200 response without access_token has been decoded: the empty token
\* is in the cache and was returned without error
C29_Witness ==
    \E p \in Procs :
        /\ Returned(p) /\ TokenResult(p) = Result(EmptyToken, Nil)
        /\ call[p].tokGot # << >> /\ TokenResponseOf(p).status = StatusOK
        /\ CacheOf(p)[KeyOf(p)].AccessToken = EmptyToken

(***************************************************************************)
(* C30.  The validity the provider declares for a token.                   *)
(***************************************************************************)
\* expires_in, a decimal string of seconds, as a number
Seconds(expiresIn) ==
    CASE expiresIn = "3599" -> 3599
      [] expiresIn = "1800" -> 1800
      [] OTHER -> 0

\* caller p is served the entry of the cache in this step
ServedFromCache(p) == LookupStep(p) /\ call'[p].lookup = "fresh"
\* the age of that entry, in seconds
AgeOfEntry(p) == (now - CacheOf(p)[KeyOf(p)].setAt) * 60

\* C30 as stated: GenerateAccessToken never returns a cached token later
\* than its issued-at plus the expires_in received with it, whatever that
\* expires_in is.
C30_AsStated ==
    [][\A p \in Procs :
            ServedFromCache(p) => AgeOfEntry(p) <= Seconds(CacheOf(p)[KeyOf(p)].ExpiresIn)]_vars

C30_Served(p) ==
    ServedFromCache(p) =>
        /\ now < CacheOf(p)[KeyOf(p)].setAt + 55
        /\ call'[p].gat[1] = Result(CacheOf(p)[KeyOf(p)].AccessToken, Nil)
        /\ Seconds(CacheOf(p)[KeyOf(p)].ExpiresIn) >= 55 * 60 =>
                AgeOfEntry(p) < Seconds(CacheOf(p)[KeyOf(p)].ExpiresIn)

\* C30 amended: GenerateAccessToken returns a cached token only less than
\* 55 minutes after its issued-at; that is within the validity the
\* provider declared when expires_in is at least 3300 seconds.  The
\* expires_in of the response is stored and never read: a token declared
\* valid for less is served from the cache until 55 minutes have passed.
C30_FixedValidity == [][\A p \in Procs : C30_Served(p)]_vars

\* a token the provider declared valid for 1800 seconds has been served
\* from the cache 54 minutes after it was issued
C30_Witness ==
    \E p \in Procs :
        /\ call[p].lookup = "fresh" /\ Returned(p) /\ TokenResult(p).err = Nil
        /\ CacheOf(p)[KeyOf(p)].ExpiresIn = "1800"
        /\ CacheOf(p)[KeyOf(p)].setAt = 0
        /\ now = 54
        /\ call[p].enteredAt = 54

====
